---- MODULE Spec2Model ----
(***************************************************************************)
(* Model of the proposal pipeline: the deployment step                     *)
(* (execution/deploy_proposal.py), the step runner that launches the steps *)
(* (run_script), the project naming function, the last-deployment record   *)
(* and its reader, the quick_proposal orchestrators (mcp_server.py and     *)
(* execution/quick_proposal.py) and two orchestrations running at once.    *)
(*                                                                         *)
(* Sleep times are in hundredths of a second.  A Python value that may be  *)
(* None (or a file / mapping key that may be absent) is a sequence of      *)
(* length 0 or 1: <<>> is None / absent, <<v>> is the value v.             *)
(***************************************************************************)
EXTENDS Integers, Sequences, FiniteSets, TLC

VARIABLES
    client_name,    \* the client_name / client_slug tool argument, as characters
    client_slug,    \* the --client-slug option of the deploy step, as characters
    project_name,   \* deploy_proposal.main local: payload["name"], as characters
    env,            \* the process environment read by os.environ.get
    proposal_file,  \* state of the --proposal path: "ok", "missing", "unreadable"
    requests_installed, \* whether `import requests` succeeds
    pc,             \* position of the deploy process
    max_attempts,   \* deploy_proposal.main local
    backoff_base,   \* deploy_proposal.main local (hundredths of a second)
    attempt,        \* deploy_proposal.main local
    response,       \* deploy_proposal.main local: None or the last response received
    last_error,     \* deploy_proposal.main local: None or a str
    requests,       \* history: number of requests.post calls issued
    last_outcome,   \* history: None or what the latest requests.post produced
    only_500,       \* history: every outcome before the latest was a status 500
    sleeps,         \* history: every time.sleep argument, in order
    printed,        \* the final line main printed: None or a record
    ret,            \* what main returned: None or an int
    exit_code,      \* the exit code of the step process: None or an int
    record,         \* contents of .tmp/last_deployment_url.txt: absent or a str
    record_before,  \* history: contents of that file when the run started
    succeeded,      \* run_script's first result: None or a bool
    runner,         \* one run_script call and the child process it waits for
    store,          \* the last-deployment record's writers and readers
    pipe,           \* one quick_proposal orchestration
    runs,           \* two orchestrations running at the same time
    server          \* the tool server: its configuration and its latest request

\* what a run is given and never changes
given == <<client_name, env, proposal_file, requests_installed, record_before>>
\* the configuration main derives before the loop
config == <<client_slug, project_name, max_attempts, backoff_base>>
\* the histories of the retry loop
history == <<requests, last_outcome, only_500, sleeps>>

\* the components that a specification of another component leaves alone
elsewhere == <<runner, store, pipe, runs, server>>

vars == <<given, config, history, pc, attempt, response, last_error, printed,
          ret, exit_code, record, succeeded, elsewhere>>

None == <<>>
Some(v) == <<v>>

\* a component that takes no part in the behaviours of a specification
Idle == [pc |-> "idle"]
Quiescent == runner = Idle /\ store = Idle /\ pipe = Idle /\ runs = Idle /\ server = Idle

(***************************************************************************)
(* Bounds of the exploration.                                              *)
(***************************************************************************)
\* largest explicitly configured VERCEL_DEPLOY_MAX_ATTEMPTS
MaxAttemptsCfg == 4
\* the configured VERCEL_DEPLOY_MAX_ATTEMPTS go down to -NegAttemptsCfg
NegAttemptsCfg == 1
\* longest run of padding characters in a client name
MaxPad == 42

(***************************************************************************)
(* Program constants.                                                      *)
(***************************************************************************)
DefaultMaxAttempts == 4
DefaultBackoffBase == 100
JitterMax == 25
NameLimit == 50

(***************************************************************************)
(* The remote service and the network: what one requests.post can produce. *)
(***************************************************************************)
RetryableStatuses == {408, 429, 500, 599}
TerminalStatuses == {201, 403, 499, 600}
Statuses == {200} \cup RetryableStatuses \cup TerminalStatuses

\* response.json(): a JSON object with optional aliasFinal / alias / url
\* members, or a body json() raises on.
JsonBodies ==
    [json : {TRUE},
     aliasFinal : {None, Some(""), Some("final.example.app")},
     alias : {None, Some(<<>>), Some(<<"alias.vercel.app", "second.vercel.app">>)},
     url : {None, Some("dpl-1.vercel.app")}]

NotJson == [json |-> FALSE, aliasFinal |-> None, alias |-> None, url |-> None]

ErrorJson == [json |-> TRUE, aliasFinal |-> None, alias |-> None, url |-> None]

\* bodies explored for a non-200 response: not JSON, an error object without
\* any URL member, an object carrying a url member
ErrorBodies == {NotJson, ErrorJson,
                [json |-> TRUE, aliasFinal |-> None, alias |-> None,
                 url |-> Some("dpl-0.vercel.app")]}

Responses ==
    [kind : {"response"}, status_code : {200}, body : JsonBodies \cup {NotJson}, msg : {"<body>"}]
    \cup
    [kind : {"response"}, status_code : Statuses \ {200}, body : ErrorBodies, msg : {"<body>"}]

\* requests.exceptions.Timeout / ConnectionError with their str(e) in msg, and
\* any other exception requests.post can raise (a response's msg is its text)
Raised ==
    [kind : {"Timeout"}, status_code : {0}, body : {NotJson}, msg : {"", "timed out"}]
    \cup
    [kind : {"ConnectionError"}, status_code : {0}, body : {NotJson}, msg : {"refused"}]
    \cup
    [kind : {"RequestException"}, status_code : {0}, body : {NotJson}, msg : {"bad url"}]

Outcomes == Responses \cup Raised

(***************************************************************************)
(* The environments a run is started in.                                   *)
(***************************************************************************)
\* a numeric override: unset, or set to text int() / float() parses to
\* `value`, or set to text it raises ValueError on
Unset == [set |-> FALSE, valid |-> TRUE, value |-> 0]
Invalid == [set |-> TRUE, valid |-> FALSE, value |-> 0]
Number(n) == [set |-> TRUE, valid |-> TRUE, value |-> n]

MaxAttemptsSettings ==
    {Unset, Invalid} \cup {Number(n) : n \in (0 - NegAttemptsCfg)..MaxAttemptsCfg}

BackoffBaseSettings == {Unset, Number(JitterMax)}

Environments ==
    [VERCEL_TOKEN : {None, Some(""), Some("tok")},
     VERCEL_DEPLOY_MAX_ATTEMPTS : MaxAttemptsSettings,
     VERCEL_DEPLOY_BACKOFF_BASE : BackoffBaseSettings]

PreviousRecords == {None, Some("https://previous.vercel.app")}

(***************************************************************************)
(* Pure helpers of deploy_proposal.main.                                   *)
(***************************************************************************)
\* Python truthiness of an Optional[str]
Truthy(opt) == opt # None /\ opt[1] # ""

\* os.environ.get(name, default) followed by int() / float()
Setting(s, default) == IF s.set THEN s.value ELSE default

RECURSIVE Pow2(_)
Pow2(n) == IF n <= 0 THEN 1 ELSE 2 * Pow2(n - 1)

\* line 117: the statuses the loop retries
RetryableWithout429(status_code) ==
    status_code = 408 \/ (500 <= status_code /\ status_code <= 599)
RetryableWith403(status_code) ==
    status_code \in {403, 408, 429} \/ (500 <= status_code /\ status_code <= 599)
Retryable(status_code) ==
    status_code \in {408, 429} \/ (500 <= status_code /\ status_code <= 599)

\* line 121 / line 123: the text kept in last_error
HttpError(status_code, text) == "HTTP " \o ToString(status_code) \o ": " \o text
ErrorText(o) ==
    IF o.kind = "response" THEN HttpError(o.status_code, o.msg) ELSE o.msg

\* line 128 without the jitter
BackoffLinear(base, n) == base * n
Backoff(base, n) == base * Pow2(n - 1)

\* line 128: the values explored for random.uniform(0, 0.25)
JitterValues == {0, JitterMax \div 2, JitterMax}

\* line 25: `if not token`
TokenOnlyEmptyRejected(token) == token = Some("")
TokenMissing(token) == ~Truthy(token)

\* line 104: the while condition
LoopCondOffByOne(n, limit) == n <= limit + 1
LoopCond(n, limit) == n <= limit

\* line 113: `if response.status_code == 200: break`
StatusOkAny2xx(status_code) == 200 <= status_code /\ status_code <= 299
StatusOk(status_code) == status_code = 200

\* line 125: `if attempt >= max_attempts: break`
LastAttemptOffByOne(n, limit) == n > limit
LastAttempt(n, limit) == n >= limit

\* lines 139-145: the URL of a parsed response body, None when data['url']
\* raises KeyError
ResolveUrlAliasListFirst(data) ==
    LET aliases == IF data.alias = None THEN <<>> ELSE data.alias[1]
    IN  IF Len(aliases) > 0
        THEN Some("https://" \o aliases[1])
        ELSE IF Truthy(data.aliasFinal)
             THEN Some("https://" \o data.aliasFinal[1])
             ELSE IF data.url = None THEN None
                  ELSE Some("https://" \o data.url[1])
ResolveUrl(data) ==
    IF Truthy(data.aliasFinal)
    THEN Some("https://" \o data.aliasFinal[1])
    ELSE LET aliases == IF data.alias = None THEN <<>> ELSE data.alias[1]
         IN  IF Len(aliases) > 0
             THEN Some("https://" \o aliases[1])
             ELSE IF data.url = None THEN None
                  ELSE Some("https://" \o data.url[1])

\* click's standalone mode: Command.main() discards the callback's return
\* value and calls ctx.exit(), so `main()` under __main__ exits 0 whenever
\* the callback returns.
StandaloneExit(rv) == 0

\* run_script (mcp_server.py line 97, quick_proposal.py line 81):
\* `result.returncode == 0`
ReturnCodeOkUnlessOne(returncode) == returncode # 1
ReturnCodeOk(returncode) == returncode = 0

(***************************************************************************)
(* Text, as sequences of one-character strings.                            *)
(***************************************************************************)
Min(a, b) == IF a <= b THEN a ELSE b

\* str.lower() / str.upper() on the ASCII letters
ToLower ==
    [A |-> "a", B |-> "b", C |-> "c", D |-> "d", E |-> "e", F |-> "f",
     G |-> "g", H |-> "h", I |-> "i", J |-> "j", K |-> "k", L |-> "l",
     M |-> "m", N |-> "n", O |-> "o", P |-> "p", Q |-> "q", R |-> "r",
     S |-> "s", T |-> "t", U |-> "u", V |-> "v", W |-> "w", X |-> "x",
     Y |-> "y", Z |-> "z"]
ToUpper ==
    [a |-> "A", b |-> "B", c |-> "C", d |-> "D", e |-> "E", f |-> "F",
     g |-> "G", h |-> "H", i |-> "I", j |-> "J", k |-> "K", l |-> "L",
     m |-> "M", n |-> "N", o |-> "O", p |-> "P", q |-> "Q", r |-> "R",
     s |-> "S", t |-> "T", u |-> "U", v |-> "V", w |-> "W", x |-> "X",
     y |-> "Y", z |-> "Z"]
LowerChar(c) == IF c \in DOMAIN ToLower THEN ToLower[c] ELSE c
UpperChar(c) == IF c \in DOMAIN ToUpper THEN ToUpper[c] ELSE c
Lower(s) == [i \in 1..Len(s) |-> LowerChar(s[i])]
Upper(s) == [i \in 1..Len(s) |-> UpperChar(s[i])]

\* str.replace(old, new) for one-character old and new
Replace(s, old, new) == [i \in 1..Len(s) |-> IF s[i] = old THEN new ELSE s[i]]

\* s[:n]
Truncate(s, n) == SubSeq(s, 1, Min(n, Len(s)))

\* the regular expression classes \s and \w on ASCII text
IsSpace(c) == c \in {" ", "\n"}
IsWord(c) ==
    \/ c \in DOMAIN ToLower \/ c \in DOMAIN ToUpper
    \/ c \in {"0", "1", "2", "3", "4", "5", "6", "7", "8", "9", "_"}

\* str.strip()
RECURSIVE LStrip(_)
LStrip(s) == IF s # <<>> /\ IsSpace(Head(s)) THEN LStrip(Tail(s)) ELSE s
RECURSIVE RStrip(_)
RStrip(s) ==
    IF s # <<>> /\ IsSpace(s[Len(s)]) THEN RStrip(SubSeq(s, 1, Len(s) - 1)) ELSE s
Strip(s) == RStrip(LStrip(s))

\* re.sub(r'[^\w\s-]', '', text)
KeepSlugChar(c) == IsWord(c) \/ IsSpace(c) \/ c = "-"
DropPunctuation(s) == SelectSeq(s, KeepSlugChar)

\* re.sub(r'[\s_-]+', '-', text)
IsSeparator(c) == IsSpace(c) \/ c \in {"_", "-"}
RECURSIVE SkipSeparators(_)
SkipSeparators(s) ==
    IF s # <<>> /\ IsSeparator(Head(s)) THEN SkipSeparators(Tail(s)) ELSE s
RECURSIVE CollapseSeparators(_)
CollapseSeparators(s) ==
    IF s = <<>> THEN <<>>
    ELSE IF IsSeparator(Head(s))
         THEN <<"-">> \o CollapseSeparators(SkipSeparators(s))
         ELSE <<Head(s)>> \o CollapseSeparators(Tail(s))

\* mcp_server.slugify
Slugify(text) ==
    Truncate(CollapseSeparators(DropPunctuation(Strip(Lower(text)))), NameLimit)

\* deploy_proposal.py line 30
NamePrefix == <<"p", "r", "o", "p", "o", "s", "a", "l", "-">>
ProjectNameKeepCase(slug) ==
    Truncate(NamePrefix \o Replace(slug, " ", "-"), NameLimit)
ProjectName(slug) ==
    Truncate(NamePrefix \o Replace(Lower(slug), " ", "-"), NameLimit)

\* the client names explored: a head and a tail of arbitrary characters
\* around a run of padding
RECURSIVE Pad(_)
Pad(n) == IF n <= 0 THEN <<>> ELSE <<"x">> \o Pad(n - 1)
NameChars == {"A", "a", " ", "-", "_", "!"}
Heads == {<<>>} \cup {<<c>> : c \in NameChars}
              \cup {<<c, d>> : c \in NameChars, d \in NameChars}
Tails == {<<>>} \cup {<<c>> : c \in NameChars}
AcmeCorp == <<"A", "c", "m", "e", " ", "C", "o", "r", "p">>
ClientNames ==
    {h \o Pad(n) \o t : h \in Heads, n \in 0..MaxPad, t \in Tails}
    \cup {AcmeCorp, Lower(AcmeCorp)}

(***************************************************************************)
(* What main prints last.                                                  *)
(***************************************************************************)
Line(kind, status, attempts, error, url) ==
    [kind |-> kind, status |-> status, attempts |-> attempts,
     error |-> error, url |-> url]

\* line 26
ConfigFail == Line("config", None, 0, None, None)
\* line 118
ApiError(r) == Line("api_error", Some(r.status_code), 0, Some(r.msg), None)
\* lines 134-135
Exhausted(resp, n, err) ==
    Line("exhausted", IF resp = None THEN None ELSE Some(resp[1].status_code),
         n, err, None)
\* line 148
Success(url) == Line("success", None, 0, None, Some(url))
\* line 163
ImportFail == Line("import", None, 0, None, None)
\* line 166
Unexpected == Line("unexpected", None, 0, None, None)

(***************************************************************************)
(* Init: a deploy step about to be launched by run_script.                 *)
(***************************************************************************)
\* the locals of main and the observers of the step, before it runs
Fresh ==
    /\ project_name = <<>>
    /\ record = record_before
    /\ max_attempts = 0
    /\ backoff_base = 0
    /\ attempt = 0
    /\ response = None
    /\ last_error = None
    /\ requests = 0
    /\ last_outcome = None
    /\ only_500 = TRUE
    /\ sleeps = <<>>
    /\ printed = None
    /\ ret = None
    /\ exit_code = None
    /\ succeeded = None

Init ==
    /\ client_name = AcmeCorp
    /\ client_slug = AcmeCorp
    /\ env \in Environments
    /\ proposal_file \in {"ok", "missing", "unreadable"}
    /\ requests_installed \in BOOLEAN
    /\ record_before \in PreviousRecords
    /\ pc = "start"
    /\ Fresh
    /\ Quiescent

\* main returns rv after printing `line`
Return(line, rv) ==
    /\ pc' = "returned"
    /\ printed' = Some(line)
    /\ ret' = Some(rv)

(***************************************************************************)
(* deploy_proposal.py lines 17-104: option parsing, configuration, payload *)
(* and the first evaluation of the loop condition.                         *)
(***************************************************************************)
Start ==
    /\ pc = "start"
    /\ UNCHANGED elsewhere
    /\ UNCHANGED <<given, client_slug, history, response, last_error, exit_code,
                   record, succeeded>>
    /\ IF proposal_file = "missing"
       THEN \* click.Path(exists=True) rejects the option: usage error
            /\ pc' = "usage_error"
            /\ UNCHANGED <<project_name, max_attempts, backoff_base, attempt,
                           printed, ret>>
       ELSE IF TokenMissing(env.VERCEL_TOKEN)
       THEN /\ Return(ConfigFail, 1)
            /\ UNCHANGED <<project_name, max_attempts, backoff_base, attempt>>
       ELSE IF proposal_file = "unreadable"
       THEN \* open()/read() at lines 34-35 raises outside the try block
            /\ pc' = "raised"
            /\ project_name' = ProjectName(client_slug)
            /\ UNCHANGED <<max_attempts, backoff_base, attempt, printed, ret>>
       ELSE IF ~requests_installed
       THEN /\ Return(ImportFail, 1)
            /\ project_name' = ProjectName(client_slug)
            /\ UNCHANGED <<max_attempts, backoff_base, attempt>>
       ELSE IF ~env.VERCEL_DEPLOY_MAX_ATTEMPTS.valid
       THEN \* int() raises ValueError inside the try block
            /\ Return(Unexpected, 1)
            /\ project_name' = ProjectName(client_slug)
            /\ UNCHANGED <<max_attempts, backoff_base, attempt>>
       ELSE /\ project_name' = ProjectName(client_slug)
            /\ max_attempts' = Setting(env.VERCEL_DEPLOY_MAX_ATTEMPTS, DefaultMaxAttempts)
            /\ backoff_base' = Setting(env.VERCEL_DEPLOY_BACKOFF_BASE, DefaultBackoffBase)
            /\ attempt' = 1
            /\ pc' = IF LoopCond(attempt', max_attempts') THEN "post" ELSE "after"
            /\ UNCHANGED <<printed, ret>>

(***************************************************************************)
(* lines 105-126: one requests.post and the classification of its outcome. *)
(***************************************************************************)
Post ==
    /\ pc = "post"
    /\ UNCHANGED elsewhere
    /\ \E o \in Outcomes :
        /\ requests' = requests + 1
        /\ last_outcome' = Some(o)
        /\ only_500' = (last_outcome = None \/
                        (only_500 /\ last_outcome[1].kind = "response"
                                  /\ last_outcome[1].status_code = 500))
        /\ response' = IF o.kind = "response" THEN Some(o) ELSE response
        /\ IF o.kind = "response" /\ StatusOk(o.status_code)
           THEN /\ last_error' = None
                /\ pc' = "after"
                /\ UNCHANGED <<printed, ret>>
           ELSE IF o.kind = "response" /\ ~Retryable(o.status_code)
           THEN /\ Return(ApiError(o), 1)
                /\ UNCHANGED last_error
           ELSE IF o.kind = "RequestException"
           THEN \* not caught at line 122: handled at line 165
                /\ Return(Unexpected, 1)
                /\ UNCHANGED last_error
           ELSE /\ last_error' = Some(ErrorText(o))
                /\ pc' = IF LastAttempt(attempt, max_attempts) THEN "after" ELSE "sleep"
                /\ UNCHANGED <<printed, ret>>
    /\ UNCHANGED <<given, config, attempt, sleeps, exit_code, record, succeeded>>

(***************************************************************************)
(* lines 128-131 and the loop condition at line 104.                       *)
(***************************************************************************)
Sleep ==
    /\ pc = "sleep"
    /\ UNCHANGED elsewhere
    /\ \E jitter \in JitterValues :
        sleeps' = Append(sleeps, Backoff(backoff_base, attempt) + jitter)
    /\ attempt' = attempt + 1
    /\ pc' = IF LoopCond(attempt', max_attempts) THEN "post" ELSE "after"
    /\ UNCHANGED <<given, config, response, last_error, requests, last_outcome,
                   only_500, printed, ret, exit_code, record, succeeded>>

(***************************************************************************)
(* lines 133-169: after the loop.                                          *)
(***************************************************************************)
Finish ==
    /\ pc = "after"
    /\ UNCHANGED elsewhere
    /\ IF Truthy(last_error)
       THEN /\ Return(Exhausted(response, max_attempts, last_error), 1)
            /\ UNCHANGED record
       ELSE IF response = None
       THEN \* None.json(): AttributeError, handled at line 165
            /\ Return(Unexpected, 1)
            /\ UNCHANGED record
       ELSE IF ~response[1].body.json
       THEN \* response.json() raises, handled at line 165
            /\ Return(Unexpected, 1)
            /\ UNCHANGED record
       ELSE LET deploy_url == ResolveUrl(response[1].body)
            IN  IF deploy_url = None
                THEN \* data['url'] raises KeyError, handled at line 165
                     /\ Return(Unexpected, 1)
                     /\ UNCHANGED record
                ELSE /\ Return(Success(deploy_url[1]), 0)
                     /\ record' = deploy_url
    /\ UNCHANGED <<given, config, history, attempt, response, last_error,
                   exit_code, succeeded>>

(***************************************************************************)
(* lines 171-172: the step process ends.                                   *)
(***************************************************************************)
ProcessExit ==
    /\ pc \in {"returned", "raised", "usage_error"}
    /\ UNCHANGED elsewhere
    /\ exit_code' = Some(CASE pc = "returned" -> StandaloneExit(ret[1])
                          [] pc = "raised" -> 1
                          [] pc = "usage_error" -> 2)
    /\ pc' = "exited"
    /\ UNCHANGED <<given, config, history, attempt, response, last_error,
                   printed, ret, record, succeeded>>

(***************************************************************************)
(* mcp_server.run_script lines 88-97: the child is reaped.                 *)
(***************************************************************************)
RunScriptReturn ==
    /\ pc = "exited"
    /\ UNCHANGED elsewhere
    /\ succeeded' = Some(ReturnCodeOk(exit_code[1]))
    /\ pc' = "reaped"
    /\ UNCHANGED <<given, config, history, attempt, response, last_error,
                   printed, ret, exit_code, record>>

Next == Start \/ Post \/ Sleep \/ Finish \/ ProcessExit \/ RunScriptReturn

Spec == Init /\ [][Next]_vars

(***************************************************************************)
(* Vocabulary of the properties.                                           *)
(***************************************************************************)
\* main has returned (the process may have exited and been reaped since)
Returned == ret # None

\* the outcome of the latest request, when there is one
Last == last_outcome[1]

IsStatus(o) == o.kind = "response"

\* the retryable outcomes as the specification lists them
SpecRetryable(o) ==
    \/ o.kind \in {"Timeout", "ConnectionError"}
    \/ IsStatus(o) /\ o.status_code \in {408, 429} \cup (500..599)

\* a non-2xx status outside the retryable ones
SpecTerminal(o) ==
    /\ IsStatus(o)
    /\ o.status_code \notin 200..299
    /\ ~SpecRetryable(o)

\* the request budget of a run
Budget == IF max_attempts > 0 THEN max_attempts ELSE 0

(***************************************************************************)
(* C1: whatever the remote outcomes and the configured max_attempts, a     *)
(* deploy run never issues more than max_attempts POST requests (none at   *)
(* all when max_attempts <= 0; 4 when unset), and once the budget is used  *)
(* the run is past the loop: it neither posts nor sleeps again.            *)
(***************************************************************************)
C1_AtMostMaxAttempts ==
    /\ requests <= Budget
    /\ pc \in {"post", "sleep"} => requests < max_attempts
    /\ (pc # "start" /\ max_attempts # 0 /\ ~env.VERCEL_DEPLOY_MAX_ATTEMPTS.set)
           => max_attempts = 4

C1_Witness ==
    /\ ~env.VERCEL_DEPLOY_MAX_ATTEMPTS.set
    /\ requests = 4
    /\ Returned
    /\ SpecRetryable(Last)

(***************************************************************************)
(* C2: when attempt k receives a non-2xx status that is not 408, 429 or    *)
(* 5xx, main returns failure at once: request k is the last one, no sleep  *)
(* follows it (k-1 sleeps in total), and for k = 1 exactly one request was *)
(* made.                                                                   *)
(***************************************************************************)
C2_TerminalStatusStops ==
    (last_outcome # None /\ SpecTerminal(Last)) =>
        /\ pc \in {"returned", "exited", "reaped"}
        /\ ret = Some(1)
        /\ printed = Some(ApiError(Last))
        /\ requests = attempt
        /\ Len(sleeps) = requests - 1
        /\ (attempt = 1 => requests = 1 /\ sleeps = <<>>)

C2_Witness ==
    /\ last_outcome # None
    /\ IsStatus(Last) /\ Last.status_code = 403
    /\ requests = 1
    /\ pc = "reaped"

(***************************************************************************)
(* C3: the outcome of a request is followed by a sleep and another request *)
(* exactly when it is a timeout, a connection error, 408, 429 or 5xx and   *)
(* attempts remain; and with max_attempts = 4 the outcomes 500, 500, 500,  *)
(* 200 (the 200 carrying a resolvable body) end in success after exactly 4 *)
(* requests.                                                               *)
(***************************************************************************)
C3_RetryIffRetryable ==
    /\ (last_outcome # None /\ requests = attempt) =>
           (pc = "sleep" <=> (SpecRetryable(Last) /\ attempt < max_attempts))
    /\ pc = "sleep" => requests = attempt
    /\ pc = "post" => requests = attempt - 1 /\ attempt <= max_attempts
    /\ (/\ max_attempts = 4
        /\ Returned
        /\ last_outcome # None
        /\ IsStatus(Last) /\ Last.status_code = 200
        /\ Last.body.json /\ Last.body.url # None
        /\ requests = 4 /\ only_500)
           => /\ ret = Some(0)
              /\ printed[1].kind = "success"
              /\ Len(sleeps) = 3

C3_Witness ==
    /\ max_attempts = 4
    /\ requests = 4
    /\ only_500
    /\ IsStatus(Last) /\ Last.status_code = 200
    /\ ret = Some(0)
    /\ Len(sleeps) = 3

(***************************************************************************)
(* C4: the k-th sleep of a run lasts backoff_base * 2^(k-1) plus a jitter  *)
(* between 0 and 0.25 s, so with the default base of 1 s the successive    *)
(* delays are strictly increasing whatever the jitters are.                *)
(***************************************************************************)
C4_BackoffDoubles ==
    /\ \A k \in 1..Len(sleeps) :
           (sleeps[k] - backoff_base * 2^(k - 1)) \in 0..25
    /\ backoff_base = 100 =>
           \A k \in 1..(Len(sleeps) - 1) : sleeps[k] < sleeps[k + 1]
    /\ (pc # "start" /\ max_attempts # 0 /\ ~env.VERCEL_DEPLOY_BACKOFF_BASE.set)
           => backoff_base = 100

C4_Witness ==
    /\ ~env.VERCEL_DEPLOY_BACKOFF_BASE.set
    /\ Len(sleeps) = 3
    /\ sleeps[1] = 125 /\ sleeps[2] = 200 /\ sleeps[3] = 412

(***************************************************************************)
(* C5: when all max_attempts attempts end in a retryable outcome, main     *)
(* returns a failure that reports the error of the last attempt, the       *)
(* number of attempts made, and no status but the last attempt's.  Stated  *)
(* here for a last attempt whose error text is not empty.                  *)
(***************************************************************************)
C5_ExhaustionReportsLastAttempt ==
    (/\ Returned
     /\ requests >= 1
     /\ requests = max_attempts
     /\ SpecRetryable(Last)
     /\ ErrorText(Last) # "")
        => /\ ret = Some(1)
           /\ printed[1].kind = "exhausted"
           /\ printed[1].error = Some(ErrorText(Last))
           /\ printed[1].attempts = requests
           /\ printed[1].status # None =>
                  (IsStatus(Last) /\ printed[1].status = Some(Last.status_code))

(***************************************************************************)
(* C6: the last-deployment record changes only in a run whose final        *)
(* response had status 200; a run that returns failure leaves it as it     *)
(* was.                                                                    *)
(***************************************************************************)
C6_RecordOnlyOn200 ==
    /\ record # record_before =>
           (last_outcome # None /\ IsStatus(Last) /\ Last.status_code = 200)
    /\ ret = Some(1) => record = record_before

(***************************************************************************)
(* C7: after a status-200 response whose body is a JSON object, the URL    *)
(* main reports and records is https:// followed by aliasFinal when that   *)
(* is present and non-empty, else by the first alias when the alias list   *)
(* is present and non-empty, else by url.                                  *)
(***************************************************************************)
C7_Expected(b) ==
    "https://" \o
        (IF b.aliasFinal # None /\ b.aliasFinal[1] # "" THEN b.aliasFinal[1]
         ELSE IF b.alias # None /\ b.alias[1] # <<>> THEN Head(b.alias[1])
         ELSE b.url[1])

C7_Resolvable(b) ==
    /\ b.json
    /\ \/ b.aliasFinal # None /\ b.aliasFinal[1] # ""
       \/ b.alias # None /\ b.alias[1] # <<>>
       \/ b.url # None

C7_UrlPriority ==
    (/\ Returned
     /\ last_outcome # None
     /\ IsStatus(Last) /\ Last.status_code = 200
     /\ C7_Resolvable(Last.body))
        => /\ printed = Some(Success(C7_Expected(Last.body)))
           /\ record = Some(C7_Expected(Last.body))
           /\ ret = Some(0)

C7_Witness ==
    /\ Returned
    /\ last_outcome # None
    /\ IsStatus(Last) /\ Last.status_code = 200
    /\ Last.body.aliasFinal = Some("")
    /\ Last.body.alias # None /\ Last.body.alias[1] # <<>>
    /\ Last.body.url # None
    /\ record = Some("https://alias.vercel.app")

(***************************************************************************)
(* C8: with VERCEL_TOKEN absent the run reports the configuration failure  *)
(* without ever issuing a request, sleeping or touching the record.        *)
(***************************************************************************)
C8_MissingTokenNoRequest ==
    env.VERCEL_TOKEN = None =>
        /\ requests = 0
        /\ sleeps = <<>>
        /\ record = record_before
        /\ pc \notin {"post", "sleep", "after"}
        /\ Returned => (printed = Some(ConfigFail) /\ ret = Some(1))

C8_Witness ==
    /\ env.VERCEL_TOKEN = None
    /\ pc = "reaped"
    /\ printed = Some(ConfigFail)

(***************************************************************************)
(* C9: the deploy step's process exits 0 when main returned 0 and 1 when   *)
(* main returned 1 (configuration error, terminal API error, exhausted     *)
(* retries), so run_script reports succeeded = false for every failure.    *)
(***************************************************************************)
C9_ExitCodeReflectsFailure ==
    /\ (exit_code # None /\ ret = Some(0)) => exit_code = Some(0)
    /\ (exit_code # None /\ ret = Some(1)) => exit_code = Some(1)
    /\ (succeeded # None /\ ret = Some(1)) => succeeded = Some(FALSE)

(***************************************************************************)
(* Project naming: how a tool argument becomes the name submitted to the   *)
(* remote service.                                                         *)
(***************************************************************************)
DefaultEnvironment ==
    [VERCEL_TOKEN |-> Some("tok"),
     VERCEL_DEPLOY_MAX_ATTEMPTS |-> Unset,
     VERCEL_DEPLOY_BACKOFF_BASE |-> Unset]

InitName ==
    /\ client_name \in ClientNames
    /\ client_slug = <<>>
    /\ env = DefaultEnvironment
    /\ proposal_file = "ok"
    /\ requests_installed = TRUE
    /\ record_before = None
    /\ pc = "tool_call"
    /\ Fresh
    /\ Quiescent

\* deploy_proposal.py line 30, on the slug the caller passed
SubmitName(slug) ==
    /\ client_slug' = slug
    /\ project_name' = ProjectName(slug)
    /\ pc' = "named"
    /\ UNCHANGED <<given, max_attempts, backoff_base, history, attempt, response,
                   last_error, printed, ret, exit_code, record, succeeded,
                   elsewhere>>

\* mcp_server.handle_deploy_proposal lines 616-629: the client_slug argument
\* is passed to the step as it is
NameViaDeployTool ==
    /\ pc = "tool_call"
    /\ SubmitName(client_name)

\* mcp_server.handle_quick_proposal lines 700 and 728-731 (and
\* quick_proposal.main lines 97 and 150-153): the slug is slugify(client_name)
NameViaQuickProposal ==
    /\ pc = "tool_call"
    /\ SubmitName(Slugify(client_name))

NextName == NameViaDeployTool \/ NameViaQuickProposal

SpecName == InitName /\ [][NextName]_vars

(***************************************************************************)
(* C10: the project name submitted for a client slug has at most 50        *)
(* characters, contains no space and no upper-case letter, and is the same *)
(* for slugs that differ only in letter case or in using a hyphen where    *)
(* the other has a space: "Acme Corp" and "acme corp" both give            *)
(* "proposal-acme-corp".                                                   *)
(***************************************************************************)
C10_ProjectNameIdempotent ==
    /\ pc = "named" =>
        /\ Len(project_name) <= 50
        /\ \A i \in 1..Len(project_name) :
               project_name[i] \notin {" ", "A", "C", "X"}
        /\ ProjectName(Upper(client_slug)) = project_name
        /\ ProjectName(Lower(client_slug)) = project_name
        /\ ProjectName(Replace(client_slug, " ", "-")) = project_name
        /\ Len(project_name) = Min(50, 9 + Len(client_slug))
    /\ (pc = "named" /\ client_slug \in {AcmeCorp, Lower(AcmeCorp)}) =>
           project_name = <<"p", "r", "o", "p", "o", "s", "a", "l", "-",
                            "a", "c", "m", "e", "-", "c", "o", "r", "p">>

C10_Witness ==
    /\ pc = "named"
    /\ Len(client_slug) > 41
    /\ client_slug[1] = "A" /\ client_slug[2] = " "
    /\ project_name[10] = "a" /\ project_name[11] = "-"
    /\ Len(project_name) = 50

(***************************************************************************)
(* The step runner: one run_script call of the tool surface                *)
(* (mcp_server.py lines 82-101) or of the command line                     *)
(* (execution/quick_proposal.py lines 68-83), and the child it waits for.  *)
(* Time is counted in minutes.                                             *)
(***************************************************************************)
\* the longest wait explored, in minutes
MaxMinutes == 3

\* mcp_server.py line 94: timeout=120 (seconds)
StepTimeout == 120

\* the timeout= argument of subprocess.run: mcp_server.py line 94 passes one,
\* quick_proposal.py lines 73-79 pass none
TimeoutOf(caller) == IF caller = "tool" THEN Some(StepTimeout) ELSE None

\* subprocess.run raises TimeoutExpired once the timeout has elapsed
TimedOut(caller, minutes) ==
    TimeoutOf(caller) # None /\ minutes * 60 >= TimeoutOf(caller)[1]

\* mcp_server.py line 99
TimedOutText ==
    <<"C", "o", "m", "m", "a", "n", "d", " ", "t", "i", "m", "e", "d", " ",
      "o", "u", "t", " ", "a", "f", "t", "e", "r", " ", "1", "2", "0", " ",
      "s", "e", "c", "o", "n", "d", "s">>

\* line 96 / line 80: result.stdout + result.stderr
CombinedOutput(stdout, stderr) == stdout \o stderr

\* str(e) of what subprocess.run raises when the child cannot be started
LaunchErrors ==
    {<<"[", "E", "r", "r", "n", "o", " ", "2", "]", " ", "N", "o", " ", "s",
       "u", "c", "h", " ", "f", "i", "l", "e">>,
     <<"[", "E", "r", "r", "n", "o", " ", "1", "3", "]", " ", "P", "e", "r",
       "m", "i", "s", "s", "i", "o", "n", " ", "d", "e", "n", "i", "e", "d">>}

\* what a child that exits leaves behind (a negative return code is the
\* signal that killed it)
ReturnCodes == {0, 1, 2, -9}
StdoutTexts ==
    {<<>>,
     <<"[", "O", "K", "]", " ", "d", "o", "n", "e", "\n">>,
     <<"[", "F", "A", "I", "L", "]", " ", "n", "o", "\n">>}
StderrTexts ==
    {<<>>,
     <<"T", "r", "a", "c", "e", "b", "a", "c", "k", "\n">>}

Result(ok, output) == [succeeded |-> ok, output |-> output]

\* the deploy step of Spec takes no part
DeployIdle ==
    /\ client_name = AcmeCorp
    /\ client_slug = AcmeCorp
    /\ env = [VERCEL_TOKEN |-> Some("tok"),
              VERCEL_DEPLOY_MAX_ATTEMPTS |-> Unset,
              VERCEL_DEPLOY_BACKOFF_BASE |-> Unset]
    /\ proposal_file = "ok"
    /\ requests_installed = TRUE
    /\ pc = "idle"
    /\ Fresh

deploy == <<given, config, history, pc, attempt, response, last_error, printed,
            ret, exit_code, record, succeeded>>

InitRunner ==
    /\ record_before = None
    /\ DeployIdle
    /\ runner \in {[caller |-> c, pc |-> "call", child |-> "none", elapsed |-> 0,
                    returncode |-> None, stdout |-> <<>>, stderr |-> <<>>,
                    raised |-> None, result |-> None] : c \in {"tool", "cli"}}
    /\ store = Idle /\ pipe = Idle /\ runs = Idle /\ server = Idle

\* subprocess.run starts the child, or raises before any child exists
Launch ==
    /\ runner.pc = "call"
    /\ \/ \E e \in LaunchErrors :
            runner' = [runner EXCEPT !.pc = "returned", !.raised = Some(e),
                                     !.result = Some(Result(FALSE, e))]
       \/ \E c \in {"running", "hung"} :
            runner' = [runner EXCEPT !.pc = "waiting", !.child = c]
    /\ UNCHANGED <<deploy, store, pipe, runs, server>>

\* a minute passes in subprocess.run while the child has not exited
Elapse ==
    /\ runner.pc = "waiting"
    /\ runner.elapsed < MaxMinutes
    /\ ~TimedOut(runner.caller, runner.elapsed)
    /\ runner' = [runner EXCEPT !.elapsed = @ + 1]
    /\ UNCHANGED <<deploy, store, pipe, runs, server>>

\* the child exits and subprocess.run returns the CompletedProcess
ChildExit ==
    /\ runner.pc = "waiting"
    /\ runner.child = "running"
    /\ ~TimedOut(runner.caller, runner.elapsed)
    /\ \E rc \in ReturnCodes, out \in StdoutTexts, err \in StderrTexts :
        runner' = [runner EXCEPT
                     !.pc = "returned", !.child = "exited",
                     !.returncode = Some(rc), !.stdout = out, !.stderr = err,
                     !.result = Some(Result(ReturnCodeOk(rc),
                                            CombinedOutput(out, err)))]
    /\ UNCHANGED <<deploy, store, pipe, runs, server>>

\* mcp_server.py lines 98-99: subprocess.run killed the child and raised
\* TimeoutExpired
StepTimedOut ==
    /\ runner.pc = "waiting"
    /\ TimedOut(runner.caller, runner.elapsed)
    /\ runner' = [runner EXCEPT !.pc = "returned", !.child = "killed",
                                !.result = Some(Result(FALSE, TimedOutText))]
    /\ UNCHANGED <<deploy, store, pipe, runs, server>>

NextRunner == Launch \/ Elapse \/ ChildExit \/ StepTimedOut

SpecRunner == InitRunner /\ [][NextRunner]_vars

(***************************************************************************)
(* C17: every step launched by an orchestrator entry point, through the    *)
(* tool surface's run_script or the command line's, is bounded by a        *)
(* timeout: a run call that has not returned can still take a step, and    *)
(* when the child never exits the call returns succeeded=false with a      *)
(* timed-out reason.                                                       *)
(***************************************************************************)
C17_EveryStepBounded ==
    /\ runner.pc = "returned" \/ ENABLED NextRunner
    /\ (runner.pc = "returned" /\ runner.child = "killed") =>
           runner.result = Some(Result(FALSE, TimedOutText))

(***************************************************************************)
(* C18: the step runner never raises to its caller: on a launch failure it *)
(* returns succeeded=false with the raised error's message as the output;  *)
(* otherwise succeeded is true exactly when the child's exit code is 0 and *)
(* the output is the child's standard output followed by its standard      *)
(* error.                                                                  *)
(***************************************************************************)
C18_RunnerNeverRaises ==
    /\ runner.pc \in {"call", "waiting", "returned"}
    /\ runner.pc = "returned" <=> runner.result # None
    /\ (runner.pc = "returned" /\ runner.raised # None) =>
           runner.result[1] = [succeeded |-> FALSE, output |-> runner.raised[1]]
    /\ (runner.pc = "returned" /\ runner.child = "exited") =>
           /\ runner.result[1].succeeded <=> (runner.returncode[1] = 0)
           /\ runner.result[1].output = runner.stdout \o runner.stderr

C18_Witness ==
    /\ runner.pc = "returned"
    /\ runner.caller = "tool"
    /\ runner.returncode = Some(2)
    /\ runner.stdout # <<>> /\ runner.stderr # <<>>
    /\ ~runner.result[1].succeeded

(***************************************************************************)
(* The last-deployment record: deploy runs that write it                   *)
(* (deploy_proposal.py lines 151-160) and get_last_deployment_url          *)
(* (mcp_server.handle_get_last_url, lines 843-851) that reads it.  The     *)
(* variable `record` is PROJECT_ROOT/.tmp/last_deployment_url.txt, and     *)
(* store.tmp_file is /tmp/.tmp/last_deployment_url.txt.  URLs are          *)
(* sequences of characters.                                                *)
(***************************************************************************)
\* the number of deploy runs explored
MaxDeploys == 3

HttpsScheme == <<"h", "t", "t", "p", "s", ":", "/", "/">>
VercelApp == <<".", "v", "e", "r", "c", "e", "l", ".", "a", "p", "p">>
\* deploy_proposal.py lines 140-145: f"https://{host}"
UrlOf(host) == HttpsScheme \o host

\* the URLs resolved by the deploy runs explored
DeployUrls == {UrlOf(<<"a">> \o VercelApp), UrlOf(<<"b">> \o VercelApp)}

\* deploy_proposal.py lines 151-156: the directory that holds the record
\* ("tmp" is /tmp/.tmp, "project" is PROJECT_ROOT/.tmp)
SaveDir(vercel) == IF vercel THEN "tmp" ELSE "project"

\* mcp_server.py lines 54-58 and 845: the directory handle_get_last_url reads
ReadDir(vercel) == "project"

\* mcp_server.py lines 847-851: the reply for the contents of the file
LastUrlReply(file) ==
    IF file = None THEN [found |-> FALSE, url |-> <<>>]
    ELSE [found |-> TRUE, url |-> Strip(file[1])]

InitRecord ==
    /\ record_before = None
    /\ DeployIdle
    /\ store \in {[pc |-> "serving", vercel |-> v, tmp_file |-> None,
                   writing |-> None, deploys |-> 0, latest |-> None,
                   reply |-> None, reply_latest |-> None,
                   reply_during_write |-> FALSE] : v \in BOOLEAN}
    /\ runner = Idle /\ pipe = Idle /\ runs = Idle /\ server = Idle

\* a deploy run ends without resolving a URL: lines 151-160 are not reached
DeployFails ==
    /\ store.pc = "serving"
    /\ store.writing = None
    /\ store.deploys < MaxDeploys
    /\ store' = [store EXCEPT !.deploys = @ + 1]
    /\ UNCHANGED <<deploy, runner, pipe, runs, server>>

\* line 159: open(..., 'w') creates the file or truncates it to length 0
DeployOpensRecord ==
    /\ store.pc = "serving"
    /\ store.writing = None
    /\ store.deploys < MaxDeploys
    /\ \E u \in DeployUrls :
        /\ store' = [store EXCEPT
                       !.writing = Some(u),
                       !.tmp_file = IF SaveDir(store.vercel) = "tmp"
                                    THEN Some(<<>>) ELSE @]
        /\ record' = IF SaveDir(store.vercel) = "project" THEN Some(<<>>)
                     ELSE record
    /\ UNCHANGED <<given, config, history, pc, attempt, response, last_error,
                   printed, ret, exit_code, succeeded, runner, pipe, runs, server>>

\* line 160 and the end of the with block: the URL is written and the file
\* closed; the run then returns 0
DeployClosesRecord ==
    /\ store.pc = "serving"
    /\ store.writing # None
    /\ store' = [store EXCEPT
                   !.writing = None,
                   !.deploys = @ + 1,
                   !.latest = store.writing,
                   !.tmp_file = IF SaveDir(store.vercel) = "tmp"
                                THEN store.writing ELSE @]
    /\ record' = IF SaveDir(store.vercel) = "project" THEN store.writing
                 ELSE record
    /\ UNCHANGED <<given, config, history, pc, attempt, response, last_error,
                   printed, ret, exit_code, succeeded, runner, pipe, runs, server>>

\* mcp_server.handle_get_last_url, lines 845-851
GetLastUrl ==
    /\ store.pc = "serving"
    /\ store' = [store EXCEPT
                   !.reply = Some(LastUrlReply(IF ReadDir(store.vercel) = "project"
                                               THEN record ELSE store.tmp_file)),
                   !.reply_latest = store.latest,
                   !.reply_during_write = (store.writing # None)]
    /\ UNCHANGED <<deploy, runner, pipe, runs, server>>

NextRecord == DeployFails \/ DeployOpensRecord \/ DeployClosesRecord \/ GetLastUrl

SpecRecord == InitRecord /\ [][NextRecord]_vars

(***************************************************************************)
(* C15: after any sequence of deploys, get_last_deployment_url returns     *)
(* exactly the URL of the most recent successful deploy (after two         *)
(* successful deploys only the second URL), and the not-found message when *)
(* no deploy has ever succeeded.  (Replies given while a deploy is writing *)
(* the record are the subject of C19.)                                     *)
(***************************************************************************)
C15_LastUrlIsLatestDeploy ==
    (store.reply # None /\ ~store.reply_during_write) =>
        IF store.reply_latest = None
        THEN ~store.reply[1].found
        ELSE store.reply[1] = [found |-> TRUE, url |-> store.reply_latest[1]]

(***************************************************************************)
(* C19: while a deploy run is rewriting the last-deployment record, a      *)
(* concurrent get_last_deployment_url never observes a partial record: it  *)
(* returns the complete previous URL (or not-found when there was none) or *)
(* the complete new URL, never an empty or truncated one.                  *)
(***************************************************************************)
C19_NoPartialRecord ==
    (store.reply # None /\ store.reply_during_write) =>
        \/ store.reply[1] = LastUrlReply(store.reply_latest)
        \/ store.reply[1].found /\ store.reply[1].url \in DeployUrls

(***************************************************************************)
(* Searching texts: the `"failed" in text.lower()` tests of                *)
(* handle_quick_proposal and the re.search for the deployment URL.         *)
(***************************************************************************)
\* s[i:i+len(pat)] == pat
StartsAt(s, i, pat) ==
    /\ i >= 1
    /\ i + Len(pat) - 1 <= Len(s)
    /\ SubSeq(s, i, i + Len(pat) - 1) = pat

\* pat in s
Contains(s, pat) == \E i \in 1..Len(s) : StartsAt(s, i, pat)

\* mcp_server.py lines 696, 715, 732, 743: "failed" in text.lower()
SaysFailed(text) == Contains(Lower(text), <<"f", "a", "i", "l", "e", "d">>)

\* the ends of the matches of https://[^\s]+\.vercel\.app that start at i
MatchEnds(s, i) ==
    {e \in i..Len(s) :
        /\ StartsAt(s, i, HttpsScheme)
        /\ StartsAt(s, e - Len(VercelApp) + 1, VercelApp)
        /\ e - Len(VercelApp) >= i + Len(HttpsScheme)
        /\ \A k \in (i + Len(HttpsScheme))..(e - Len(VercelApp)) : ~IsSpace(s[k])}

\* mcp_server.py lines 635 and 736, quick_proposal.py line 160:
\* re.search(r'https://[^\s]+\.vercel\.app', s), None or group(0): the
\* leftmost start with a match, and from it the longest match
SearchVercelUrl(s) ==
    LET starts == {i \in 1..Len(s) : MatchEnds(s, i) # {}}
    IN  IF starts = {} THEN None
        ELSE LET i == CHOOSE x \in starts : \A y \in starts : x <= y
                 e == CHOOSE x \in MatchEnds(s, i) : \A y \in MatchEnds(s, i) : y <= x
             IN  Some(SubSeq(s, i, e))

\* mcp_server.py lines 636 and 737, quick_proposal.py line 164
Placeholder ==
    <<"(", "C", "h", "e", "c", "k", " ", "V", "e", "r", "c", "e", "l", " ",
      "d", "a", "s", "h", "b", "o", "a", "r", "d", ")">>

\* url_match.group(0) if url_match else "(Check Vercel dashboard)"
ExtractUrl(text) ==
    IF SearchVercelUrl(text) = None THEN Placeholder ELSE SearchVercelUrl(text)[1]

(***************************************************************************)
(* The texts the tool handlers return.  The fixed wording after the first  *)
(* line of a success text is shortened; it holds neither the word "failed" *)
(* nor a URL.                                                              *)
(***************************************************************************)
\* mcp_server.py line 547
AnalysisFailedText(output) ==
    <<"A", "n", "a", "l", "y", "s", "i", "s", " ", "f", "a", "i", "l", "e",
      "d", ":", "\n">> \o output
\* line 571
AnalysisNoJsonText(output) ==
    <<"A", "n", "a", "l", "y", "s", "i", "s", " ", "c", "o", "m", "p", "l",
      "e", "t", "e", "d", " ", "b", "u", "t", " ", "J", "S", "O", "N", " ",
      "n", "o", "t", " ", "f", "o", "u", "n", "d", ".", "\n", "O", "u", "t",
      "p", "u", "t", ":", " ">> \o output
\* lines 555-569
AnalysisOkText(transcript_name, json_name, data) ==
    <<"T", "r", "a", "n", "s", "c", "r", "i", "p", "t", " ", "a", "n", "a",
      "l", "y", "z", "e", "d", " ", "s", "u", "c", "c", "e", "s", "s", "f",
      "u", "l", "l", "y", "!", "\n">>
    \o transcript_name \o <<"\n">> \o json_name \o <<"\n">> \o data
\* line 599
GenerationFailedText(output) ==
    <<"G", "e", "n", "e", "r", "a", "t", "i", "o", "n", " ", "f", "a", "i",
      "l", "e", "d", ":", "\n">> \o output
\* lines 601-609
GenerationOkText(file_name) ==
    <<"P", "r", "o", "p", "o", "s", "a", "l", " ", "g", "e", "n", "e", "r",
      "a", "t", "e", "d", " ", "s", "u", "c", "c", "e", "s", "s", "f", "u",
      "l", "l", "y", "!", "\n">> \o file_name
\* line 632
DeploymentFailedText(output) ==
    <<"D", "e", "p", "l", "o", "y", "m", "e", "n", "t", " ", "f", "a", "i",
      "l", "e", "d", ":", "\n">> \o output
\* lines 638-645
DeployedText(url) ==
    <<"P", "r", "o", "p", "o", "s", "a", "l", " ", "d", "e", "p", "l", "o",
      "y", "e", "d", " ", "t", "o", " ", "V", "e", "r", "c", "e", "l", "!",
      "\n", "\n", "*", "*", "L", "i", "v", "e", " ", "U", "R", "L", ":", "*",
      "*", " ">>
    \o url \o
    <<"\n", "\n", "*", "*", "N", "e", "x", "t", " ", "S", "t", "e", "p", ":",
      "*", "*">>
\* line 859
SyncFailedText(output) ==
    <<"D", "r", "i", "v", "e", " ", "s", "y", "n", "c", " ", "f", "a", "i",
      "l", "e", "d", ":", "\n">> \o output
\* lines 861-870
SyncOkText(output) ==
    <<"F", "i", "l", "e", "s", " ", "s", "y", "n", "c", "e", "d", " ", "t",
      "o", " ", "G", "o", "o", "g", "l", "e", " ", "D", "r", "i", "v", "e",
      "!", "\n", "\n">> \o output

(***************************************************************************)
(* The step processes of a pipeline run, as run_script sees them.          *)
(***************************************************************************)
\* a child process: how it ends, what it printed, whether it wrote the
\* artifact of its stage, and (deploy) the URL it resolved and printed
Child(kind, rc, stdout, stderr, wrote, resolved) ==
    [kind |-> kind, rc |-> rc, stdout |-> stdout, stderr |-> stderr,
     wrote |-> wrote, resolved |-> resolved]

\* the child that cannot be started, the child that never exits, the child
\* killed by a signal, the child that dies of an uncaught exception
Unlaunchable == {Child("launch_error", 0, <<>>, e, FALSE, None) : e \in LaunchErrors}
Hanging == Child("hang", 0, <<>>, <<>>, FALSE, None)
Killed == Child("exit", -9, <<>>, <<>>, FALSE, None)
Crashed ==
    Child("exit", 1, <<>>,
          <<"T", "r", "a", "c", "e", "b", "a", "c", "k", " ", "(", "m", "o",
            "s", "t", " ", "r", "e", "c", "e", "n", "t", " ", "c", "a", "l",
            "l", " ", "l", "a", "s", "t", ")", ":", "\n">>, FALSE, None)
Broken == Unlaunchable \cup {Hanging, Killed, Crashed}

\* run_script (mcp_server.py lines 82-101, quick_proposal.py lines 68-83) on
\* a child: None when the call never returns
RunScript(caller, child) ==
    CASE child.kind = "launch_error" -> Some(Result(FALSE, child.stderr))
      [] child.kind = "exit" ->
            Some(Result(ReturnCodeOk(child.rc),
                        CombinedOutput(child.stdout, child.stderr)))
      [] child.kind = "hang" ->
            IF TimeoutOf(caller) = None THEN None
            ELSE Some(Result(FALSE, TimedOutText))

\* analyze_transcript.py: line 166 after writing the data file; lines 110-111
\* and 170-171 return 1, which click's standalone mode turns into exit code 0
AnalyzeChildren ==
    {Child("exit", 0,
          <<"[", "S", "U", "C", "C", "E", "S", "S", "]", " ", "D", "a", "t",
            "a", " ", "e", "x", "t", "r", "a", "c", "t", "e", "d", " ", "t",
            "o", ":", " ", "d", "a", "t", "a", ".", "j", "s", "o", "n", "\n">>,
           <<>>, TRUE, None),
     Child("exit", StandaloneExit(1),
          <<"[", "E", "R", "R", "O", "R", "]", " ", "O", "P", "E", "N", "A",
            "I", "_", "A", "P", "I", "_", "K", "E", "Y", " ", "n", "o", "t",
            " ", "f", "o", "u", "n", "d", " ", "i", "n", " ", ".", "e", "n",
            "v", "\n">>,
           <<>>, FALSE, None),
     Child("exit", StandaloneExit(1),
          <<"[", "E", "R", "R", "O", "R", "]", " ", "A", "n", "a", "l", "y",
            "s", "i", "s", " ", "f", "a", "i", "l", "e", "d", ":", " ", "b",
            "o", "o", "m", "\n">>,
           <<>>, FALSE, None)}
    \cup Broken

\* generate_proposal.py: line 256 after writing the HTML file; every error
\* is an uncaught exception
GenerateChildren ==
    {Child("exit", 0,
          <<"[", "O", "K", "]", " ", "G", "e", "n", "e", "r", "a", "t", "e",
            "d", " ", "p", "r", "o", "p", "o", "s", "a", "l", ":", " ", "o",
            "u", "t", ".", "h", "t", "m", "l", "\n">>,
           <<>>, TRUE, None)}
    \cup Broken

\* deploy_proposal.py line 91
DeployingLine(slug) ==
    <<"D", "e", "p", "l", "o", "y", "i", "n", "g", " ">> \o ProjectName(slug) \o
    <<" ", "t", "o", " ", "V", "e", "r", "c", "e", "l", " ", "A", "P", "I",
      ".", ".", ".", "\n">>
\* line 129
WarnLine(error) ==
    <<"[", "W", "A", "R", "N", "]", " ", "D", "e", "p", "l", "o", "y", " ",
      "a", "t", "t", "e", "m", "p", "t", " ", "1", " ", "f", "a", "i", "l",
      "e", "d", " ", "(">> \o error \o
    <<")", ".", " ", "R", "e", "t", "r", "y", "i", "n", "g", " ", "i", "n",
      " ", "1", ".", "1", "0", "s", ".", ".", ".", "\n">>
\* lines 147-149
SuccessLines(url) ==
    <<"[", "O", "K", "]", " ", "D", "E", "P", "L", "O", "Y", " ", "S", "U",
      "C", "C", "E", "S", "S", ":", " ">> \o url \o <<"\n">>
\* line 26
ConfigFailLine ==
    <<"[", "F", "A", "I", "L", "]", " ", "V", "E", "R", "C", "E", "L", "_",
      "T", "O", "K", "E", "N", " ", "e", "n", "v", "i", "r", "o", "n", "m",
      "e", "n", "t", " ", "v", "a", "r", "i", "a", "b", "l", "e", " ", "i",
      "s", " ", "r", "e", "q", "u", "i", "r", "e", "d", ".", "\n">>

\* the body of a retryable error answer that mentions a status page
StatusPageError ==
    <<"H", "T", "T", "P", " ", "5", "0", "0", ":", " ", "s", "e", "e", " ",
      "h", "t", "t", "p", "s", ":", "/", "/", "s", "t", "a", "t", "u", "s",
      ".", "v", "e", "r", "c", "e", "l", ".", "a", "p", "p">>

\* the hosts a 200 answer can name: a *.vercel.app alias or a custom domain
VercelHost == <<"a", "c", "m", "e">> \o VercelApp
CustomHost ==
    <<"a", "c", "m", "e", ".", "e", "x", "a", "m", "p", "l", "e", ".", "a",
      "p", "p">>

\* deploy_proposal.py: a run that resolves a URL (after a retry or not), and
\* a run that returns 1 at line 27, which click turns into exit code 0
DeployChildren(slug) ==
    {Child("exit", 0, DeployingLine(slug) \o SuccessLines(UrlOf(h)), <<>>,
           TRUE, Some(UrlOf(h))) : h \in {VercelHost, CustomHost}}
    \cup {Child("exit", 0,
                DeployingLine(slug) \o WarnLine(StatusPageError)
                    \o SuccessLines(UrlOf(VercelHost)),
                <<>>, TRUE, Some(UrlOf(VercelHost))),
          Child("exit", StandaloneExit(1), ConfigFailLine, <<>>, FALSE, None)}
    \cup Broken

\* drive_storage.py: line 416 after a sync, line 315 when one upload failed;
\* lines 470-471 return 1, which click turns into exit code 0
SyncChildren ==
    {Child("exit", 0,
          <<"S", "y", "n", "c", " ", "C", "o", "m", "p", "l", "e", "t", "e",
            "!", "\n">>,
           <<>>, TRUE, None),
     Child("exit", 0,
          <<"F", "a", "i", "l", "e", "d", " ", "t", "o", " ", "u", "p", "l",
            "o", "a", "d", " ", "a", ".", "h", "t", "m", "l", ":", " ", "q",
            "u", "o", "t", "a", "\n", "S", "y", "n", "c", " ", "C", "o", "m",
            "p", "l", "e", "t", "e", "!", "\n">>,
           <<>>, TRUE, None),
     Child("exit", StandaloneExit(1),
          <<"[", "E", "R", "R", "O", "R", "]", " ", "i", "n", "v", "a", "l",
            "i", "d", "_", "g", "r", "a", "n", "t", "\n">>,
           <<>>, FALSE, None)}
    \cup Broken

(***************************************************************************)
(* One pipeline run: mcp_server.handle_quick_proposal (entry "tool", lines *)
(* 679-767) or quick_proposal.main (entry "cli", lines 86-184), from the   *)
(* moment the arguments are accepted.  A stage is one action: the step is  *)
(* launched, run_script returns, the handler builds its text and the       *)
(* orchestrator decides.                                                   *)
(***************************************************************************)
\* file names of this run
DateStr ==
    <<"2", "0", "2", "6", "0", "1", "0", "1", "_", "1", "2", "0", "0", "0",
      "0">>
TranscriptName(slug, date) == slug \o <<"_">> \o date \o <<".", "t", "x", "t">>
JsonSuffix ==
    <<"_", "d", "a", "t", "a", ".", "j", "s", "o", "n">>
JsonName(slug, date) == slug \o <<"_">> \o date \o JsonSuffix
HtmlSuffix ==
    <<".", "h", "t", "m", "l">>
HtmlName(slug, date) == slug \o <<"_">> \o date \o HtmlSuffix
\* json.dumps(data) of the extracted data
DataText ==
    <<"{", "\"", "c", "l", "i", "e", "n", "t", "_", "n", "a", "m", "e", "\"",
      ":", " ", "\"", "A", "c", "m", "e", " ", "C", "o", "r", "p", "\"", "}">>

\* `if not success` (mcp_server.py lines 546, 598, 631, 858;
\* quick_proposal.py lines 130, 152, 165)
NotSuccessUnlessSilent(r) == ~r.succeeded /\ r.output # <<>>
NotSuccess(r) == ~r.succeeded

\* handle_analyze_transcript lines 546-571
AnalyzeReply(slug, r, wrote) ==
    IF NotSuccess(r) THEN AnalysisFailedText(r.output)
    ELSE IF wrote
         THEN AnalysisOkText(TranscriptName(slug, DateStr),
                             JsonName(slug, DateStr), DataText)
         ELSE AnalysisNoJsonText(r.output)
\* handle_generate_proposal lines 598-609
GenerateReply(slug, r) ==
    IF NotSuccess(r) THEN GenerationFailedText(r.output)
    ELSE GenerationOkText(HtmlName(slug, DateStr))
\* handle_deploy_proposal lines 631-645
DeployReply(r) ==
    IF NotSuccess(r) THEN DeploymentFailedText(r.output)
    ELSE DeployedText(ExtractUrl(r.output))
\* handle_sync_to_drive lines 858-870
SyncReply(r) ==
    IF NotSuccess(r) THEN SyncFailedText(r.output) ELSE SyncOkText(r.output)

\* what the run returns: the verdict, the stage its text names (or the file
\* it could not find), the live URL it shows and the Drive warning
Outcome(success, failed_at, live_url, warning) ==
    [success |-> success, failed_at |-> failed_at, live_url |-> live_url,
     warning |-> warning]
\* mcp_server.py lines 697, 716, 733; quick_proposal.py lines 131, 153, 166
FailedAt(stage) == Outcome(FALSE, stage, <<>>, FALSE)
\* mcp_server.py lines 743-767: the summary after the sync stage
SummaryUnlessSyncFailed(url, sync_text) ==
    Outcome(~SaysFailed(sync_text), "", url, SaysFailed(sync_text))
Summary(url, sync_text) == Outcome(TRUE, "", url, SaysFailed(sync_text))

\* the arguments explored: absent, empty, two client names, a short text, a
\* text of 50 characters
FailedCorp ==
    <<"F", "a", "i", "l", "e", "d", " ", "C", "o", "r", "p">>
CallerNames == {None, Some(<<>>), Some(AcmeCorp), Some(FailedCorp)}
CallerTexts == {None, Some(<<>>), Some(<<"h", "i">>), Some(Pad(50))}

\* mcp_server.py line 684: `if not client_name or not transcript_text`;
\* quick_proposal.py lines 92-93 and 104: the stripped name is empty, or the
\* transcript has fewer than 50 characters
ArgumentsRejectedOnlyName(entry, name, text) == name = None \/ name[1] = <<>>
ArgumentsRejected(entry, name, text) ==
    \/ name = None \/ name[1] = <<>>
    \/ text = None \/ text[1] = <<>>
    \/ entry = "cli" /\ (Strip(name[1]) = <<>> \/ Len(text[1]) < 50)

\* the files of this run: "" when absent, else the stage that wrote the
\* current content.  handle_analyze_transcript saves the transcript (lines
\* 538-539) before its step writes the data file; the generate step writes
\* the HTML file; deploy and sync only read
DiskAfterCleanup(disk, stage, child) ==
    [transcript |-> IF stage = "analyze" THEN "analyze"
                    ELSE IF child.wrote THEN disk.transcript ELSE "",
     json |-> IF stage = "analyze" /\ child.wrote THEN "analyze" ELSE disk.json,
     html |-> IF stage = "generate" /\ child.wrote THEN "generate" ELSE disk.html]
DiskAfter(disk, stage, child) ==
    [transcript |-> IF stage = "analyze" THEN "analyze" ELSE disk.transcript,
     json |-> IF stage = "analyze" /\ child.wrote THEN "analyze" ELSE disk.json,
     html |-> IF stage = "generate" /\ child.wrote THEN "generate" ELSE disk.html]

InitPipeline ==
    /\ record_before = None
    /\ DeployIdle
    /\ pipe \in {[entry |-> e, pc |-> "call", client_name |-> n,
                  transcript_text |-> t, slug |-> <<>>,
                  old_json |-> o, launched |-> <<>>, failed |-> <<>>,
                  no_artifact |-> <<>>, json_used |-> "none",
                  html_written |-> FALSE, output |-> <<>>,
                  disk |-> [transcript |-> "", json |-> "", html |-> ""],
                  resolved |-> None, recovered |-> None, live_url |-> None,
                  outcome |-> None]
                 : e \in {"tool", "cli"}, o \in BOOLEAN,
                   n \in CallerNames, t \in CallerTexts}
    /\ runner = Idle /\ store = Idle /\ runs = Idle /\ server = Idle

\* the histories after the step of `stage` ended as r (None: never)
Launched(stage, child, r) ==
    [pipe EXCEPT
       !.launched = Append(@, stage),
       !.disk = DiskAfter(@, stage, child),
       !.output = IF r = None THEN <<>> ELSE r[1].output,
       !.failed = IF r # None /\ ~r[1].succeeded THEN Append(@, stage) ELSE @,
       !.no_artifact = IF r # None /\ r[1].succeeded /\ ~child.wrote
                       THEN Append(@, stage) ELSE @]
\* the run ends with `outcome`
EndsAndRetries(p, outcome) == [p EXCEPT !.outcome = Some(outcome)]
Ends(p, outcome) == [p EXCEPT !.pc = "done", !.outcome = Some(outcome)]
\* subprocess.run never returns
Hangs(p) == [p EXCEPT !.pc = "hung"]

\* deploy_proposal.py line 18: click.Path(exists=True) rejects a --proposal
\* path that does not exist, and the process exits 2
UsageError ==
    Child("exit", 2, <<>>,
          <<"E", "r", "r", "o", "r", ":", " ", "I", "n", "v", "a", "l", "i",
            "d", " ", "v", "a", "l", "u", "e", " ", "f", "o", "r", " ", "'",
            "-", "-", "p", "r", "o", "p", "o", "s", "a", "l", "'", "\n">>, FALSE, None)

\* mcp_server.py lines 681-685 and 699 (quick_proposal.py lines 92-106)
AcceptCall ==
    /\ pipe.pc = "call"
    /\ pipe' = IF ArgumentsRejected(pipe.entry, pipe.client_name,
                                    pipe.transcript_text)
               THEN Ends(pipe, FailedAt("arguments"))
               ELSE [pipe EXCEPT !.pc = "analyze",
                                 !.slug = Slugify(pipe.client_name[1])]
    /\ UNCHANGED <<deploy, runner, store, runs, server>>

\* mcp_server.py lines 689-707 (quick_proposal.py lines 126-143)
AnalyzeStage ==
    /\ pipe.pc = "analyze"
    /\ \E child \in AnalyzeChildren :
        LET r == RunScript(pipe.entry, child)
            p == Launched("analyze", child, r)
            \* the glob of line 700 (the path of line 134) finds a data file
            found == child.wrote \/ pipe.old_json
            failed == IF pipe.entry = "tool"
                      THEN SaysFailed(AnalyzeReply(pipe.slug, r[1], child.wrote))
                      ELSE NotSuccess(r[1])
        IN  pipe' = IF r = None THEN Hangs(p)
                    ELSE IF failed THEN Ends(p, FailedAt("analysis"))
                    ELSE IF ~found THEN Ends(p, FailedAt("json"))
                    ELSE [p EXCEPT !.pc = "generate",
                                   !.json_used = IF child.wrote THEN "new"
                                                 ELSE "old"]
    /\ UNCHANGED <<deploy, runner, store, runs, server>>

\* mcp_server.py lines 708-724 (quick_proposal.py lines 145-157)
GenerateStage ==
    /\ pipe.pc = "generate"
    /\ \E child \in GenerateChildren :
        LET r == RunScript(pipe.entry, child)
            p == [Launched("generate", child, r) EXCEPT
                    !.html_written = child.wrote]
            failed == IF pipe.entry = "tool"
                      THEN SaysFailed(GenerateReply(pipe.slug, r[1]))
                      ELSE NotSuccess(r[1])
        IN  pipe' = IF r = None THEN Hangs(p)
                    ELSE IF failed THEN Ends(p, FailedAt("generation"))
                    ELSE IF pipe.entry = "tool" /\ ~child.wrote
                    THEN Ends(p, FailedAt("html"))
                    ELSE [p EXCEPT !.pc = "deploy"]
    /\ UNCHANGED <<deploy, runner, store, runs, server>>

\* mcp_server.py lines 726-738 (quick_proposal.py lines 159-184)
DeployStage ==
    /\ pipe.pc = "deploy"
    /\ \E child \in IF pipe.html_written THEN DeployChildren(pipe.slug)
                    ELSE {UsageError} \cup Unlaunchable \cup {Hanging} :
        LET r == RunScript(pipe.entry, child)
            p == [Launched("deploy", child, r) EXCEPT
                    !.resolved = child.resolved]
            \* the text searched for the URL
            text == IF pipe.entry = "tool" THEN DeployReply(r[1])
                    ELSE r[1].output
            failed == IF pipe.entry = "tool" THEN SaysFailed(text)
                      ELSE NotSuccess(r[1])
            q == [p EXCEPT !.recovered = Some(SearchVercelUrl(text) # None),
                           !.live_url = Some(ExtractUrl(text))]
        IN  pipe' = IF r = None THEN Hangs(p)
                    ELSE IF failed THEN Ends(p, FailedAt("deployment"))
                    ELSE IF pipe.entry = "tool" THEN [q EXCEPT !.pc = "sync"]
                    ELSE Ends(q, Outcome(TRUE, "", ExtractUrl(text), FALSE))
    /\ UNCHANGED <<deploy, runner, store, runs, server>>

\* mcp_server.py lines 740-767
SyncStage ==
    /\ pipe.pc = "sync"
    /\ \E child \in SyncChildren :
        LET r == RunScript(pipe.entry, child)
            p == Launched("sync", child, r)
        IN  pipe' = IF r = None THEN Hangs(p)
                    ELSE Ends(p, Summary(pipe.live_url[1], SyncReply(r[1])))
    /\ UNCHANGED <<deploy, runner, store, runs, server>>

NextPipeline ==
    AcceptCall \/ AnalyzeStage \/ GenerateStage \/ DeployStage \/ SyncStage

SpecPipeline == InitPipeline /\ [][NextPipeline]_vars

\* the stage launched last
LastLaunched ==
    IF pipe.launched = <<>> THEN "" ELSE pipe.launched[Len(pipe.launched)]
\* the run stopped with a failure outcome right after launching `stage`
HaltedAt(stage) ==
    /\ pipe.pc = "done"
    /\ LastLaunched = stage
    /\ ~pipe.outcome[1].success

(***************************************************************************)
(* C11: in a pipeline run, for each stage S of analyze, generate, deploy:  *)
(* if S's step fails (non-zero exit, launch error or timeout), no step of  *)
(* a later stage is ever launched and the returned failure text names S as *)
(* the failed stage; a generate failure means deploy and sync are never    *)
(* invoked.                                                                *)
(***************************************************************************)
C11_StepFailureHalts ==
    \A i \in 1..Len(pipe.failed) :
        LET stage == pipe.failed[i]
        IN  stage \in {"analyze", "generate", "deploy"} =>
                /\ HaltedAt(stage)
                /\ pipe.outcome[1].failed_at =
                       CASE stage = "analyze" -> "analysis"
                         [] stage = "generate" -> "generation"
                         [] stage = "deploy" -> "deployment"

C11_Witness ==
    /\ pipe.pc = "done"
    /\ pipe.entry = "tool"
    /\ pipe.failed = <<"generate">>
    /\ pipe.launched = <<"analyze", "generate">>
    /\ pipe.output = TimedOutText
    /\ pipe.outcome[1].failed_at = "generation"

(***************************************************************************)
(* C12: a pipeline run reports success only with a real live URL: if the   *)
(* deploy step reports success but no deployment URL can be recovered from *)
(* its output, the run ends as failed at deploy, sync is not run and no    *)
(* success outcome is returned with a placeholder.                         *)
(***************************************************************************)
C12_SuccessOnlyWithUrl ==
    /\ pipe.recovered = Some(FALSE) =>
           /\ HaltedAt("deploy")
           /\ pipe.outcome[1].failed_at = "deployment"
    /\ (pipe.outcome # None /\ pipe.outcome[1].success) =>
           pipe.outcome[1].live_url # Placeholder

(***************************************************************************)
(* C13: for analyze and generate, when the step exits zero but the         *)
(* artifact expected from this run is absent, the tool pipeline treats it  *)
(* like a step failure: it stops at that stage and launches no later       *)
(* stage, whichever files of earlier runs exist on disk.                   *)
(***************************************************************************)
C13_MissingArtifactHalts ==
    pipe.entry = "tool" =>
        \A i \in 1..Len(pipe.no_artifact) :
            pipe.no_artifact[i] \in {"analyze", "generate"} =>
                HaltedAt(pipe.no_artifact[i])

(***************************************************************************)
(* C14: if analyze, generate and deploy all succeed, the pipeline outcome  *)
(* is success with the live URL whether the sync step succeeds, fails or   *)
(* times out; a sync failure only adds a warning.                          *)
(***************************************************************************)
C14_SyncIsBestEffort ==
    /\ pipe.pc = "sync" => pipe.launched = <<"analyze", "generate", "deploy">>
    /\ (pipe.pc = "done" /\ LastLaunched = "sync") =>
           /\ pipe.outcome[1].success
           /\ pipe.outcome[1].live_url = pipe.live_url[1]
           /\ LastLaunched \in {pipe.failed[i] : i \in 1..Len(pipe.failed)}
                  => pipe.outcome[1].warning

C14_Witness ==
    /\ pipe.pc = "done"
    /\ pipe.failed = <<"sync">>
    /\ pipe.output = TimedOutText
    /\ pipe.outcome[1].success
    /\ pipe.outcome[1].warning
    /\ pipe.outcome[1].live_url = UrlOf(VercelHost)

(***************************************************************************)
(* C16: on every successful run the live URL returned to the caller equals *)
(* the URL the deployment client resolved from the 200 response (the one   *)
(* it prints as the final result), for any alias host (alias               *)
(* acme.example.app gives https://acme.example.app) and whatever warning   *)
(* lines, possibly containing other URLs, precede it in the step output.   *)
(***************************************************************************)
C16_LiveUrlIsResolvedUrl ==
    (pipe.outcome # None /\ pipe.outcome[1].success /\ pipe.resolved # None) =>
        pipe.outcome[1].live_url = pipe.resolved[1]

(***************************************************************************)
(* Two pipeline runs of the tool surface in separate processes, every step *)
(* succeeding.  A file is a record of its name, the run that wrote it, the *)
(* run whose data it was made from and its modification order.             *)
(***************************************************************************)
\* the seconds the clock goes through: the values of
\* datetime.now().strftime('%Y%m%d_%H%M%S')
Seconds ==
    <<DateStr,
      <<"2", "0", "2", "6", "0", "1", "0", "1", "_", "1", "2", "0", "0", "0",
        "1">>>>
\* the client name of the second run
Acme == <<"A", "c", "m", "e">>

\* Path.glob(f"{slug}_*{suffix}") on a file name
GlobMatch(slug, suffix, name) ==
    /\ StartsAt(name, 1, slug \o <<"_">>)
    /\ StartsAt(name, Len(name) - Len(suffix) + 1, suffix)
    /\ Len(name) >= Len(slug) + 1 + Len(suffix)

\* max(files, key=lambda x: x.stat().st_mtime) over the files the glob finds
\* (mcp_server.py lines 700-704 and 719-723)
Newest(files, slug, suffix) ==
    LET found == {f \in files : GlobMatch(slug, suffix, f.name)}
    IN  CHOOSE f \in found : \A g \in found : g.mtime <= f.mtime

\* open(path, 'w') and write: the file of that name is replaced
PutFile(files, name, owner, data, mtime) ==
    {f \in files : f.name # name}
    \cup {[name |-> name, owner |-> owner, data |-> data, mtime |-> mtime]}

InitRuns ==
    /\ record_before = None
    /\ DeployIdle
    /\ runs \in {[pc |-> "running", now |-> 1, writes |-> 0,
                  transcripts |-> {}, proposals |-> {},
                  run |-> [r \in {1, 2} |->
                             [pc |-> "analyze",
                              client |-> IF r = 1 THEN AcmeCorp ELSE c,
                              json_used |-> 0, html_used |-> 0,
                              html_data |-> 0, published |-> 0,
                              published_data |-> 0]]]
                 : c \in {AcmeCorp, Lower(AcmeCorp), Acme}}
    /\ runner = Idle /\ store = Idle /\ pipe = Idle /\ server = Idle

\* a second passes
ClockTicks ==
    /\ runs.pc = "running"
    /\ runs.now < Len(Seconds)
    /\ runs' = [runs EXCEPT !.now = @ + 1]
    /\ UNCHANGED <<deploy, runner, store, pipe, server>>

RunSlug(r) == Slugify(runs.run[r].client)

\* handle_analyze_transcript lines 534-549: the transcript is saved under
\* the current second and the step writes its _data.json next to it
AnalyzeWrites(r) ==
    /\ runs.run[r].pc = "analyze"
    /\ runs' = [runs EXCEPT
                  !.writes = @ + 1,
                  !.transcripts = PutFile(@, JsonName(RunSlug(r), Seconds[runs.now]),
                                          r, r, runs.writes + 1),
                  !.run[r].pc = "find_json"]
    /\ UNCHANGED <<deploy, runner, store, pipe, server>>

\* handle_quick_proposal lines 699-704: the newest data file of the slug
FindJson(r) ==
    /\ runs.run[r].pc = "find_json"
    /\ runs' = [runs EXCEPT
                  !.run[r].json_used =
                      Newest(runs.transcripts, RunSlug(r), JsonSuffix).owner,
                  !.run[r].pc = "generate"]
    /\ UNCHANGED <<deploy, runner, store, pipe, server>>

\* handle_generate_proposal lines 591-597: the step turns the data file it
\* was given into an HTML file named after the current second
GenerateWrites(r) ==
    /\ runs.run[r].pc = "generate"
    /\ runs' = [runs EXCEPT
                  !.writes = @ + 1,
                  !.proposals = PutFile(@, HtmlName(RunSlug(r), Seconds[runs.now]),
                                        r, runs.run[r].json_used, runs.writes + 1),
                  !.run[r].pc = "find_html"]
    /\ UNCHANGED <<deploy, runner, store, pipe, server>>

\* handle_quick_proposal lines 718-723: the newest HTML file of the slug
FindHtml(r) ==
    /\ runs.run[r].pc = "find_html"
    /\ LET f == Newest(runs.proposals, RunSlug(r), HtmlSuffix)
       IN  runs' = [runs EXCEPT !.run[r].html_used = f.owner,
                                !.run[r].html_data = f.data,
                                !.run[r].pc = "deploy"]
    /\ UNCHANGED <<deploy, runner, store, pipe, server>>

\* handle_quick_proposal lines 726-731: the deploy step publishes that file
DeployPublishes(r) ==
    /\ runs.run[r].pc = "deploy"
    /\ runs' = [runs EXCEPT !.run[r].published = runs.run[r].html_used,
                            !.run[r].published_data = runs.run[r].html_data,
                            !.run[r].pc = "done"]
    /\ UNCHANGED <<deploy, runner, store, pipe, server>>

NextRuns ==
    \/ ClockTicks
    \/ \E r \in {1, 2} : AnalyzeWrites(r)
    \/ \E r \in {1, 2} : FindJson(r)
    \/ \E r \in {1, 2} : GenerateWrites(r)
    \/ \E r \in {1, 2} : FindHtml(r)
    \/ \E r \in {1, 2} : DeployPublishes(r)

SpecRuns == InitRuns /\ [][NextRuns]_vars

(***************************************************************************)
(* C20: when two pipeline runs execute concurrently, for the same or for   *)
(* different client names, each run's generate consumes the data file      *)
(* written by its own analyze and each run's deploy publishes the HTML     *)
(* written by its own generate (no state but the last-deployment record is *)
(* shared).                                                                *)
(***************************************************************************)
C20_RunsAreIsolated ==
    \A r \in {1, 2} :
        /\ runs.run[r].json_used \in {0, r}
        /\ runs.run[r].html_used \in {0, r}
        /\ runs.run[r].published \in {0, r}
        /\ runs.run[r].published_data \in {0, r}

(***************************************************************************)
(* C21: within one pipeline run the orchestrator launches the step process *)
(* of each stage (analyze, generate, deploy, sync) at most once, whatever  *)
(* the outcome of that step: the stages launched are a prefix of the       *)
(* pipeline, each launched once.                                           *)
(***************************************************************************)
C21_EachStageLaunchedOnce ==
    /\ Len(pipe.launched) <= 4
    /\ pipe.launched =
           SubSeq(<<"analyze", "generate", "deploy", "sync">>, 1, Len(pipe.launched))
    /\ \A i, j \in 1..Len(pipe.launched) :
           pipe.launched[i] = pipe.launched[j] => i = j

C21_Witness ==
    /\ pipe.pc = "done"
    /\ pipe.entry = "tool"
    /\ pipe.launched = <<"analyze", "generate", "deploy">>
    /\ pipe.failed = <<"deploy">>
    /\ pipe.output = <<>>

(***************************************************************************)
(* C22: after a pipeline run fails at stage S, every artifact written by   *)
(* the stages before S (the saved transcript, the data JSON, the HTML      *)
(* proposal) still exists with the content its stage wrote: the            *)
(* orchestrator never deletes or rewrites an earlier stage's artifact.     *)
(***************************************************************************)
C22_EarlierArtifactsKept ==
    LET passed(stage) ==
            /\ \E i \in 1..Len(pipe.launched) : pipe.launched[i] = stage
            /\ \A i \in 1..Len(pipe.failed) : pipe.failed[i] # stage
            /\ \A i \in 1..Len(pipe.no_artifact) : pipe.no_artifact[i] # stage
    IN  (pipe.pc = "done" /\ ~pipe.outcome[1].success) =>
            /\ pipe.launched # <<>> => pipe.disk.transcript = "analyze"
            /\ passed("analyze") => pipe.disk.json = "analyze"
            /\ passed("generate") => pipe.disk.html = "generate"

C22_Witness ==
    /\ pipe.pc = "done"
    /\ pipe.entry = "tool"
    /\ pipe.failed = <<"deploy">>
    /\ pipe.output = TimedOutText
    /\ pipe.disk = [transcript |-> "analyze", json |-> "analyze",
                    html |-> "generate"]

(***************************************************************************)
(* C23: quick_proposal called with client_name or transcript_text missing  *)
(* or empty returns an error text without saving a transcript file and     *)
(* without launching any stage's step.                                     *)
(***************************************************************************)
C23_MissingArgumentsRejected ==
    (/\ pipe.pc # "call"
     /\ \/ pipe.client_name \in {None, Some(<<>>)}
        \/ pipe.transcript_text \in {None, Some(<<>>)}) =>
        /\ pipe.pc = "done"
        /\ pipe.outcome = Some(FailedAt("arguments"))
        /\ pipe.launched = <<>>
        /\ pipe.disk.transcript = ""

C23_Witness ==
    /\ pipe.pc = "done"
    /\ pipe.entry = "tool"
    /\ pipe.client_name = Some(AcmeCorp)
    /\ pipe.transcript_text = Some(<<>>)
    /\ pipe.outcome = Some(FailedAt("arguments"))

(***************************************************************************)
(* C27: the stage verdicts of a pipeline run depend only on each step's    *)
(* success status and the presence of its artifact, not on text content:   *)
(* a run in which every step succeeds and produces its artifact reports    *)
(* success, whatever the client name is and whatever words (for example    *)
(* "failed") occur in the extracted data, file names or step output.       *)
(***************************************************************************)
C27_VerdictIgnoresWords ==
    (/\ pipe.pc = "done"
     /\ pipe.launched # <<>>
     /\ pipe.failed = <<>>
     /\ pipe.no_artifact = <<>>) =>
        pipe.outcome[1].success


(***************************************************************************)
(* C26: within one deploy run the attempts are strictly sequential.  A     *)
(* request is issued only when every earlier request has completed and     *)
(* has been followed by exactly one backoff sleep; no sleep precedes the   *)
(* first request; and once the loop is left, by success, by a terminal     *)
(* failure or by exhaustion, a run of r >= 1 requests has slept r - 1      *)
(* times: no sleep follows the final request.                              *)
(***************************************************************************)
C26_AttemptsSequential ==
    /\ requests = 0 => sleeps = <<>>
    /\ pc = "post" => Len(sleeps) = requests /\ attempt = requests + 1
    /\ pc = "sleep" => requests >= 1 /\ Len(sleeps) = requests - 1
                                     /\ attempt = requests
    /\ (requests >= 1 /\ pc \notin {"post", "sleep"})
           => Len(sleeps) = requests - 1

C26_Witness ==
    /\ Returned
    /\ requests = 3
    /\ Len(sleeps) = 2
    /\ IsStatus(Last) /\ Last.status_code = 200

(***************************************************************************)
(* C29: only status 200 counts as deploy success.  A response with any     *)
(* other 2xx status ends the run as a failure after that request: main     *)
(* returns 1 with the API error, the request is not retried, no backoff    *)
(* sleep follows it, and the last-deployment record is left as it was.     *)
(***************************************************************************)
C29_Other2xxIsFailure ==
    (last_outcome # None /\ IsStatus(Last)
         /\ Last.status_code \in (200..299) \ {200}) =>
        /\ pc \in {"returned", "exited", "reaped"}
        /\ ret = Some(1)
        /\ printed = Some(ApiError(Last))
        /\ requests = attempt
        /\ Len(sleeps) = requests - 1
        /\ record = record_before

C29_Witness ==
    /\ last_outcome # None
    /\ IsStatus(Last) /\ Last.status_code = 201
    /\ requests = 1
    /\ sleeps = <<>>
    /\ pc = "reaped"
    /\ record = Some("https://previous.vercel.app")


(***************************************************************************)
(* C28: whether the VERCEL environment variable is set or not, a           *)
(* successful deploy writes the last-deployment URL to the file that       *)
(* get_last_deployment_url reads, so that a get issued after a successful  *)
(* deploy has completed finds a record and returns that deploy's URL.      *)
(***************************************************************************)
C28_WriterAndReaderShareFile ==
    /\ store.latest # None => SaveDir(store.vercel) = ReadDir(store.vercel)
    /\ (store.reply # None /\ store.reply_latest # None
            /\ ~store.reply_during_write) =>
           /\ store.reply[1].found
           /\ store.reply[1].url = store.reply_latest[1]


(***************************************************************************)
(* The tool server: the names list_tools advertises (mcp_server.py lines   *)
(* 142-474), the programmatic dispatcher call_tool (lines 481-521), the    *)
(* HTTP routes of api_server.py (lines 194-429) with verify_api_key        *)
(* (lines 95-103), and handle_fetch (mcp_server.py lines 1017-1056).  A    *)
(* handler is known by its function name; what the handlers other than     *)
(* handle_fetch do is the matter of the other components.                  *)
(***************************************************************************)
\* mcp_server.py lines 142-474: the Tool names list_tools returns
ListTools ==
    {"analyze_transcript", "generate_proposal", "deploy_proposal",
     "send_proposal_email", "quick_proposal", "read_sheet", "find_client",
     "list_proposals", "list_transcripts", "get_last_deployment_url",
     "sync_to_drive", "list_drive_files", "download_from_drive", "search",
     "fetch"}

\* the names requests are made with: the advertised ones, the path of the
\* GET route, a name no one defines and the empty name
RequestNames == ListTools \cup {"last_deployment_url", "delete_everything", ""}

\* mcp_server.py lines 485-519: the if/elif chain of call_tool, None for the
\* else branch.  The second `elif name == "list_drive_files"` of lines
\* 510-511 is never reached.
CallToolDispatch(name) ==
    IF name = "analyze_transcript" THEN Some("handle_analyze_transcript")
    ELSE IF name = "generate_proposal" THEN Some("handle_generate_proposal")
    ELSE IF name = "deploy_proposal" THEN Some("handle_deploy_proposal")
    ELSE IF name = "send_proposal_email" THEN Some("handle_send_email")
    ELSE IF name = "quick_proposal" THEN Some("handle_quick_proposal")
    ELSE IF name = "read_sheet" THEN Some("handle_read_sheet")
    ELSE IF name = "find_client" THEN Some("handle_find_client")
    ELSE IF name = "list_proposals" THEN Some("handle_list_proposals")
    ELSE IF name = "list_transcripts" THEN Some("handle_list_transcripts")
    ELSE IF name = "get_last_deployment_url" THEN Some("handle_get_last_url")
    ELSE IF name = "sync_to_drive" THEN Some("handle_sync_to_drive")
    ELSE IF name = "list_drive_files" THEN Some("handle_list_drive_files")
    ELSE IF name = "list_drive_files" THEN Some("handle_list_drive_files")
    ELSE IF name = "download_from_drive" THEN Some("handle_download_from_drive")
    ELSE IF name = "search" THEN Some("handle_search")
    ELSE IF name = "fetch" THEN Some("handle_fetch")
    ELSE None

\* api_server.py lines 406-422: the handlers dict of execute_tool
handlers ==
    [analyze_transcript |-> "handle_analyze_transcript",
     generate_proposal |-> "handle_generate_proposal",
     deploy_proposal |-> "handle_deploy_proposal",
     send_proposal_email |-> "handle_send_email",
     quick_proposal |-> "handle_quick_proposal",
     read_sheet |-> "handle_read_sheet",
     find_client |-> "handle_find_client",
     list_proposals |-> "handle_list_proposals",
     list_transcripts |-> "handle_list_transcripts",
     get_last_deployment_url |-> "handle_get_last_url",
     sync_to_drive |-> "handle_sync_to_drive",
     list_drive_files |-> "handle_list_drive_files",
     download_from_drive |-> "handle_download_from_drive",
     search |-> "handle_search",
     fetch |-> "handle_fetch"]

\* api_server.py line 424: handlers.get(tool_name)
HandlersGetOrSearch(tool_name) ==
    IF tool_name \in DOMAIN handlers THEN Some(handlers[tool_name])
    ELSE Some("handle_search")
HandlersGet(tool_name) ==
    IF tool_name \in DOMAIN handlers THEN Some(handlers[tool_name]) ELSE None

\* api_server.py lines 287-400: the routes declared before the generic
\* one, by the last segment of their path
ToolRoutes ==
    {[method |-> "POST", path |-> "analyze_transcript", depends |-> TRUE,
      handler |-> "handle_analyze_transcript"],
     [method |-> "POST", path |-> "generate_proposal", depends |-> TRUE,
      handler |-> "handle_generate_proposal"],
     [method |-> "POST", path |-> "deploy_proposal", depends |-> TRUE,
      handler |-> "handle_deploy_proposal"],
     [method |-> "POST", path |-> "send_proposal_email", depends |-> TRUE,
      handler |-> "handle_send_email"],
     [method |-> "POST", path |-> "quick_proposal", depends |-> TRUE,
      handler |-> "handle_quick_proposal"],
     [method |-> "POST", path |-> "read_sheet", depends |-> TRUE,
      handler |-> "handle_read_sheet"],
     [method |-> "POST", path |-> "find_client", depends |-> TRUE,
      handler |-> "handle_find_client"],
     [method |-> "POST", path |-> "list_proposals", depends |-> TRUE,
      handler |-> "handle_list_proposals"],
     [method |-> "POST", path |-> "list_transcripts", depends |-> TRUE,
      handler |-> "handle_list_transcripts"],
     [method |-> "GET", path |-> "last_deployment_url", depends |-> FALSE,
      handler |-> "handle_get_last_url"],
     [method |-> "POST", path |-> "sync_to_drive", depends |-> TRUE,
      handler |-> "handle_sync_to_drive"],
     [method |-> "POST", path |-> "list_drive_files", depends |-> TRUE,
      handler |-> "handle_list_drive_files"],
     [method |-> "POST", path |-> "download_from_drive", depends |-> TRUE,
      handler |-> "handle_download_from_drive"],
     [method |-> "POST", path |-> "search", depends |-> TRUE,
      handler |-> "handle_search"],
     [method |-> "POST", path |-> "fetch", depends |-> TRUE,
      handler |-> "handle_fetch"]}

\* the values of the MCP_API_KEY variable and of the X-API-Key header
ExpectedKeys == {None, Some(""), Some("secret")}
ApiKeys == {None, Some(""), Some("secret"), Some("guess")}

\* api_server.py lines 95-103: verify_api_key raises HTTPException(403)
VerifyRejects(expected_key, api_key) ==
    Truthy(expected_key) /\ api_key # expected_key

(***************************************************************************)
(* Paths, as sequences of segments below the root of the file system.      *)
(***************************************************************************)
\* str.replace(old, new) for texts: every occurrence, from the left
RECURSIVE ReplaceAll(_, _, _)
ReplaceAll(s, old, new) ==
    IF s = <<>> THEN <<>>
    ELSE IF StartsAt(s, 1, old)
    THEN new \o ReplaceAll(SubSeq(s, Len(old) + 1, Len(s)), old, new)
    ELSE <<s[1]>> \o ReplaceAll(Tail(s), old, new)

\* str.split("/"), cur being the segment read so far
RECURSIVE Split(_, _)
Split(s, cur) ==
    IF s = <<>> THEN <<cur>>
    ELSE IF s[1] = "/" THEN <<cur>> \o Split(Tail(s), <<>>)
    ELSE Split(Tail(s), Append(cur, s[1]))

\* pathlib keeps neither empty segments nor "." segments
Segments(s) ==
    SelectSeq(Split(s, <<>>), LAMBDA seg : seg # <<>> /\ seg # <<".">>)

\* pathlib's `directory / s`: an absolute right operand replaces the left
Join(directory, s) ==
    IF s # <<>> /\ s[1] = "/" THEN Segments(s) ELSE directory \o Segments(s)

\* mcp_server.py lines 54-60
PROJECT_ROOT == <<<<"a", "p", "p">>>>
TMP_DIR == Append(PROJECT_ROOT, <<".", "t", "m", "p">>)
TRANSCRIPTS_DIR == Append(TMP_DIR, <<"t", "r", "a", "n", "s", "c", "r", "i", "p", "t", "s">>)
PROPOSALS_DIR == Append(TMP_DIR, <<"p", "r", "o", "p", "o", "s", "a", "l", "s">>)

\* the file system explored: the directories of lines 63-64 with one file
\* each, the record of the latest deployment, the project's .env file and
\* a file of the system
Directories ==
    {<<>>, PROJECT_ROOT, TMP_DIR, TRANSCRIPTS_DIR, PROPOSALS_DIR,
     <<<<"e", "t", "c">>>>}
Files ==
    {Append(TRANSCRIPTS_DIR, <<"a", ".", "t", "x", "t">>),
     Append(PROPOSALS_DIR, <<"p", ".", "h", "t", "m", "l">>),
     Append(TMP_DIR,
            <<"l", "a", "s", "t", "_", "d", "e", "p", "l", "o", "y", "m", "e", "n",
      "t", "_", "u", "r", "l", ".", "t", "x", "t">>),
     Append(PROJECT_ROOT, <<".", "e", "n", "v">>),
     Append(<<<<"e", "t", "c">>>>, <<"p", "a", "s", "s", "w", "d">>)}

\* the walk the operating system makes from the directory cur along segs:
\* the file or directory reached, None when a segment does not exist; ".."
\* leads to the parent, and from the root to the root
RECURSIVE Walk(_, _)
Walk(cur, segs) ==
    IF cur \notin Directories \cup Files THEN None
    ELSE IF segs = <<>> THEN Some(cur)
    ELSE IF cur \notin Directories THEN None
    ELSE Walk(IF segs[1] # <<".", ".">> THEN Append(cur, segs[1])
              ELSE IF cur = <<>> THEN <<>>
              ELSE SubSeq(cur, 1, Len(cur) - 1),
              Tail(segs))

\* the document ids explored
DocIds ==
    {\* a transcript
     <<"f", "i", "l", "e", ":", "/", "/", "t", "r", "a", "n", "s", "c", "r",
       "i", "p", "t", "s", "/", "a", ".", "t", "x", "t">>,
     \* a proposal
     <<"f", "i", "l", "e", ":", "/", "/", "p", "r", "o", "p", "o", "s", "a",
       "l", "s", "/", "p", ".", "h", "t", "m", "l">>,
     \* no such file
     <<"f", "i", "l", "e", ":", "/", "/", "t", "r", "a", "n", "s", "c", "r",
       "i", "p", "t", "s", "/", "n", "o", "n", "e", ".", "t", "x", "t">>,
     \* the transcripts directory itself
     <<"f", "i", "l", "e", ":", "/", "/", "t", "r", "a", "n", "s", "c", "r",
       "i", "p", "t", "s", "/">>,
     \* one level up: TMP_DIR
     <<"f", "i", "l", "e", ":", "/", "/", "t", "r", "a", "n", "s", "c", "r",
       "i", "p", "t", "s", "/", ".", ".", "/", "l", "a", "s", "t", "_", "d",
       "e", "p", "l", "o", "y", "m", "e", "n", "t", "_", "u", "r", "l", ".",
       "t", "x", "t">>,
     \* two levels up: PROJECT_ROOT
     <<"f", "i", "l", "e", ":", "/", "/", "t", "r", "a", "n", "s", "c", "r",
       "i", "p", "t", "s", "/", ".", ".", "/", ".", ".", "/", ".", "e", "n",
       "v">>,
     \* an absolute path once the prefix is removed
     <<"f", "i", "l", "e", ":", "/", "/", "p", "r", "o", "p", "o", "s", "a",
       "l", "s", "/", "/", "e", "t", "c", "/", "p", "a", "s", "s", "w", "d">>,
     \* the prefix twice
     <<"f", "i", "l", "e", ":", "/", "/", "t", "r", "a", "n", "s", "c", "r",
       "i", "p", "t", "s", "/", "t", "r", "a", "n", "s", "c", "r", "i", "p",
       "t", "s", "/", "a", ".", "t", "x", "t">>,
     \* one prefix after the other
     <<"f", "i", "l", "e", ":", "/", "/", "p", "r", "o", "p", "o", "s", "a",
       "l", "s", "/", "t", "r", "a", "n", "s", "c", "r", "i", "p", "t", "s",
       "/", "a", ".", "t", "x", "t">>,
     \* neither prefix
     <<"f", "i", "l", "e", ":", "/", "/", ".", "e", "n", "v">>,
     \* no scheme
     <<"t", "r", "a", "n", "s", "c", "r", "i", "p", "t", "s", "/", "a", ".",
       "t", "x", "t">>,
     \* args.get's default
     <<>>}

\* mcp_server.py lines 1017-1056: what handle_fetch answers and the file
\* whose text it returns, None when it returns no text
handle_fetch(doc_id) ==
    LET Fetched(error, file) ==
            [handler |-> "handle_fetch", error |-> error, read |-> file]
        scheme == <<"f", "i", "l", "e", ":", "/", "/">>
        transcripts == <<"t", "r", "a", "n", "s", "c", "r", "i", "p", "t", "s",
                         "/">>
        proposals == <<"p", "r", "o", "p", "o", "s", "a", "l", "s", "/">>
        rel_path == ReplaceAll(doc_id, scheme, <<>>)
        path == IF StartsAt(rel_path, 1, transcripts)
                THEN Some(Join(TRANSCRIPTS_DIR,
                               ReplaceAll(rel_path, transcripts, <<>>)))
                ELSE IF StartsAt(rel_path, 1, proposals)
                THEN Some(Join(PROPOSALS_DIR,
                               ReplaceAll(rel_path, proposals, <<>>)))
                ELSE None
        found == IF path = None THEN None ELSE Walk(<<>>, path[1])
    IN  IF ~StartsAt(doc_id, 1, scheme)
        THEN Fetched("Invalid ID format", None)
        ELSE IF found = None THEN Fetched("File not found", None)
        ELSE IF found[1] \in Directories
        THEN \* read_text raises IsADirectoryError, caught at line 1053
             Fetched("exception", None)
        ELSE Fetched("", found)

\* what running a handler leaves behind
Ran(handler, doc_id) ==
    IF handler = "handle_fetch" THEN handle_fetch(doc_id)
    ELSE [handler |-> handler, error |-> "", read |-> None]

\* path is dir itself or lies below it
Inside(path, dir) ==
    Len(path) >= Len(dir) /\ SubSeq(path, 1, Len(dir)) = dir

Request(via, name, api_key, doc_id, status, ran) ==
    [server EXCEPT !.via = via, !.name = name, !.api_key = api_key,
                   !.doc_id = doc_id, !.status = status, !.ran = ran]

InitServer ==
    /\ record_before = None
    /\ DeployIdle
    /\ server \in {[pc |-> "listening", expected_key |-> k, via |-> "",
                    name |-> "", api_key |-> None, doc_id |-> <<>>,
                    status |-> 0, ran |-> None] : k \in ExpectedKeys}
    /\ runner = Idle /\ store = Idle /\ pipe = Idle /\ runs = Idle

\* mcp_server.py lines 481-521: a tool call over the MCP protocol
CallTool ==
    /\ server.pc = "listening"
    /\ \E name \in RequestNames, doc_id \in DocIds :
        LET handler == CallToolDispatch(name)
        IN  server' = Request("call_tool", name, None, doc_id, 0,
                              IF handler = None THEN None
                              ELSE Some(Ran(handler[1], doc_id)))
    /\ UNCHANGED <<deploy, runner, store, pipe, runs>>

\* api_server.py lines 287-400: a request to one of the routes declared for
\* a single tool
ToolRoute ==
    /\ server.pc = "listening"
    /\ \E route \in ToolRoutes, api_key \in ApiKeys, doc_id \in DocIds :
        server' =
            IF route.depends /\ VerifyRejects(server.expected_key, api_key)
            THEN Request(route.method, route.path, api_key, doc_id, 403, None)
            ELSE Request(route.method, route.path, api_key, doc_id, 200,
                         Some(Ran(route.handler, doc_id)))
    /\ UNCHANGED <<deploy, runner, store, pipe, runs>>

\* api_server.py lines 403-429: POST /tools/{tool_name} for a name that no
\* earlier POST route matches
ExecuteTool ==
    /\ server.pc = "listening"
    /\ \E tool_name \in RequestNames, api_key \in ApiKeys, doc_id \in DocIds :
        /\ \A route \in ToolRoutes :
               route.method = "POST" => route.path # tool_name
        /\ LET handler == HandlersGet(tool_name)
           IN  server' =
                   IF VerifyRejects(server.expected_key, api_key)
                   THEN Request("execute_tool", tool_name, api_key, doc_id,
                                403, None)
                   ELSE IF handler = None
                   THEN Request("execute_tool", tool_name, api_key, doc_id,
                                404, None)
                   ELSE Request("execute_tool", tool_name, api_key, doc_id,
                                200, Some(Ran(handler[1], doc_id)))
    /\ UNCHANGED <<deploy, runner, store, pipe, runs>>

NextServer == CallTool \/ ToolRoute \/ ExecuteTool

SpecServer == InitServer /\ [][NextServer]_vars


(***************************************************************************)
(* C24: call_tool and execute_tool accept exactly the names list_tools     *)
(* advertises and map each of them to the same handler, and a name outside *)
(* that set is answered by an error ("Unknown tool", respectively HTTP     *)
(* 404) without any handler being run.                                     *)
(***************************************************************************)
C24_DispatchersAgree ==
    /\ \A name \in RequestNames :
           /\ CallToolDispatch(name) = HandlersGet(name)
           /\ name \in ListTools <=> CallToolDispatch(name) # None
    /\ (server.via = "call_tool" /\ server.name \notin ListTools)
           => server.ran = None
    /\ (server.via = "execute_tool" /\ server.name \notin ListTools)
           => server.ran = None /\ server.status \in {403, 404}
    /\ (server.via \in {"call_tool", "execute_tool"}
            /\ server.name \in ListTools /\ server.status # 403)
           => /\ server.ran # None
              /\ Some(server.ran[1].handler) = CallToolDispatch(server.name)
              /\ Some(server.ran[1].handler) = HandlersGet(server.name)

C24_Witness ==
    /\ server.via = "execute_tool"
    /\ server.name = "get_last_deployment_url"
    /\ server.status = 200
    /\ server.ran # None
    /\ server.ran[1].handler = "handle_get_last_url"

\* a request over HTTP, with the method or function that served it
OverHttp == server.via \in {"GET", "POST", "execute_tool"}

(***************************************************************************)
(* C25: when MCP_API_KEY is configured, a request over HTTP whose          *)
(* X-API-Key header is absent or differs from it is answered with status   *)
(* 403 and runs no tool handler.                                           *)
(***************************************************************************)
C25_NoHandlerWithoutKey ==
    (OverHttp /\ Truthy(server.expected_key)
         /\ server.api_key # server.expected_key)
        => server.status = 403 /\ server.ran = None

(***************************************************************************)
(* C30: whatever the document id, a file whose text fetch returns lies in  *)
(* the transcripts directory or in the proposals directory.                *)
(***************************************************************************)
C30_FetchStaysInside ==
    (server.ran # None /\ server.ran[1].handler = "handle_fetch"
         /\ server.ran[1].read # None)
        => \/ Inside(server.ran[1].read[1], TRANSCRIPTS_DIR)
           \/ Inside(server.ran[1].read[1], PROPOSALS_DIR)

====
